---- MODULE Spec2Model ----
(***************************************************************************)
(* pypeline: blueprint graphs (pypeline/graph.py, pypeline/common.py) and  *)
(* the evaluation context built from them (pypeline/context.py).           *)
(*                                                                         *)
(* Three state machines share this module:                                 *)
(*   GraphSpec  the construction operations on two blueprint objects;      *)
(*   Spec       one context built from a blueprint, with its node and      *)
(*              group operations;                                          *)
(*   IsoSpec    two contexts built from one blueprint, operated on in any  *)
(*              order while the blueprint is changed, the keyword dicts    *)
(*              kept as objects of a heap.                                 *)
(***************************************************************************)
EXTENDS Integers, Sequences, FiniteSets, TLC

VARIABLES
    graphs,   \* graph id -> blueprint: the Graph objects of the program
    gout,     \* what the last blueprint operation was and how it ended
    context,  \* the Context: path -> NodeState, and the NodeGroup paths
    out,      \* what the last context operation was and what it returned
    instances,\* instance id -> (path -> NodeState), _kwargs naming a dict object
    heap      \* dict object -> its content: the keyword dicts in memory

vars == <<graphs, gout, context, out, instances, heap>>

(***************************************************************************)
(* Bounds of the model.                                                    *)
(***************************************************************************)
\* literal values a caller passes as keyword arguments: 1..MaxVal
MaxVal == 2
\* literal values a caller passes as positional arguments: 1..MaxArg
MaxArg == 1
\* longest path a blueprint operation is started on
MaxDepth == 2
\* longest edge list a pipe is started on
MaxEdges == 2
\* depth at which the interpreter gives up a recursion (RuntimeError)
RecursionLimit == 4
\* blueprint operations in one behaviour
MaxOps == 2

(***************************************************************************)
(* Python values.                                                          *)
(***************************************************************************)
\* None, where a string or a name is expected
None == "None"
\* None, where a tuple or dict is expected: an optional is a 0/1-tuple
NoneV == << >>
Some(v) == <<v>>
\* the empty dict
EmptyDict == << >>
\* a literal argument value
Lit(i) == [lit |-> i]
\* the cache of a node that holds nothing
NoneVal == [none |-> TRUE]
\* d1.update(d2), dict(d1, **d2): the keys of d2 win
DictUpdate(d1, d2) == d2 @@ d1

RECURSIVE SetToSeq(_)
\* dict.items(): the entries of a dict in the one order the dict yields them
SetToSeq(S) ==
    IF S = {} THEN << >>
    ELSE LET m == CHOOSE e \in S : TRUE IN <<m>> \o SetToSeq(S \ {m})

\* whether edge list l holds e (Python's `e in l`)
InList(e, l) == \E i \in 1..Len(l) : l[i] = e

\* the entries of l that satisfy Test, in order
SelectNotIn(l, present) == SelectSeq(l, LAMBDA e : ~InList(e, present))

(***************************************************************************)
(* The callables bound to nodes.  The engine reads only a callable's name  *)
(* and its argument specification; the stand-ins are the functions of the  *)
(* tests, an anonymous lambda, a callable object, a function with a        *)
(* catch-all keyword collector and a function r(value, fudge) that raises  *)
(* ValueError unless fudge is 1.                                           *)
(***************************************************************************)
Callables == {"a", "b", "c", "d", "kw", "lambda", "obj", "r"}

\* func_name of a callable; None for a callable object, which has none
func_name(f) == CASE f = "lambda" -> "<lambda>"
                  [] f = "obj" -> None
                  [] OTHER -> f

\* inspect.getargspec: declared names, count of defaults, **keywords
getargspec(f) ==
    CASE f = "a" -> [args |-> <<"x", "y">>, ndefaults |-> 1, keywords |-> None]
      [] f = "b" -> [args |-> <<"value", "fudge">>, ndefaults |-> 0, keywords |-> None]
      [] f = "c" -> [args |-> <<"val_a", "fudge">>, ndefaults |-> 0, keywords |-> None]
      [] f = "d" -> [args |-> <<"x1", "ping", "ping_override">>, ndefaults |-> 2,
                     keywords |-> None]
      [] f = "kw" -> [args |-> <<"data">>, ndefaults |-> 1, keywords |-> "kwargs"]
      [] f = "r" -> [args |-> <<"value", "fudge">>, ndefaults |-> 0, keywords |-> None]
      [] OTHER -> [args |-> << >>, ndefaults |-> 0, keywords |-> None]

\* whether f returns a params(...) bundle (the c of the tests) or a plain value
ReturnsParams(f) == f = "c"

(***************************************************************************)
(* pypeline/common.py                                                      *)
(***************************************************************************)
EdgeDef(node, param) == [node |-> node, param |-> param]

\* NodeDef.__init__; args and kwargs are optionals (None or a value)
NodeDef(owner, func, prefix, name, args, kwargs) ==
    [kind |-> "NodeDef", owner |-> owner, func |-> func, name |-> name,
     prefix |-> prefix, path |-> Append(prefix, name),
     args |-> IF args = NoneV THEN << >> ELSE args[1],
     kwargs |-> IF kwargs = NoneV THEN EmptyDict ELSE kwargs[1]]

\* NodeDef.rebase
NodeDef_rebase(self, owner, prefix) ==
    NodeDef(owner, self.func, prefix, self.name, Some(self.args), Some(self.kwargs))

\* NodeDef.update
NodeDef_update(self, other) ==
    [self EXCEPT !.func = other.func, !.args = other.args, !.kwargs = other.kwargs]

(***************************************************************************)
(* pypeline/graph.py: a blueprint is the root Graph's state.  _items of    *)
(* the root and of every SubGraph are kept in one map keyed by absolute    *)
(* path (prefix + name); _downstream and _upstream are the root's maps,    *)
(* which every SubGraph shares.                                            *)
(***************************************************************************)
\* SubGraph.__init__
SubGraph(prefix, root) == [kind |-> "SubGraph", prefix |-> prefix, root |-> root]

\* Graph.__init__ with no items
EmptyGraph == [_items |-> << >>, _downstream |-> << >>, _upstream |-> << >>]

\* the graph object itself: the root, or the SubGraph stored at prefix
Self(root, prefix) == [root |-> root, prefix |-> prefix]

\* the keys of graph._items, for the graph at prefix
ItemKeys(B, prefix) ==
    {p[Len(p)] : p \in {q \in DOMAIN B._items :
                            Len(q) = Len(prefix) + 1 /\ SubSeq(q, 1, Len(prefix)) = prefix}}

\* how an operation ends: the blueprint it leaves, the error raised ("" for
\* none) and the path it returns
Ok(B, path) == [B |-> B, err |-> "", ret |-> path]
Raise(B, e) == [B |-> B, err |-> e, ret |-> << >>]

\* _store_node_def that leaves an existing node definition as it is
store_node_def_noupdate(B, node_def) ==
    LET node_path == node_def.path IN
    IF node_path \in DOMAIN B._items
    THEN IF B._items[node_path].kind = "SubGraph"
         THEN Raise(B, "ValueError: override sub-graph with node")
         ELSE Ok(B, node_path)
    ELSE Ok([B EXCEPT !._items = (node_path :> node_def) @@ @,
                      !._downstream = (node_path :> << >>) @@ @,
                      !._upstream = (node_path :> << >>) @@ @], node_path)

\* _store_node_def that files the new definition afresh, its edge lists emptied
store_node_def_reset(B, node_def) ==
    LET node_path == node_def.path IN
    IF node_path \in DOMAIN B._items /\ B._items[node_path].kind = "SubGraph"
    THEN Raise(B, "ValueError: override sub-graph with node")
    ELSE Ok([B EXCEPT !._items = (node_path :> node_def) @@ @,
                      !._downstream = (node_path :> << >>) @@ @,
                      !._upstream = (node_path :> << >>) @@ @], node_path)

\* BaseGraph._store_node_def
_store_node_def(B, node_def) ==
    LET node_path == node_def.path IN
    IF node_path \in DOMAIN B._items
    THEN IF B._items[node_path].kind = "SubGraph"
         THEN Raise(B, "ValueError: override sub-graph with node")
         ELSE Ok([B EXCEPT !._items[node_path] = NodeDef_update(@, node_def)], node_path)
    ELSE Ok([B EXCEPT !._items = (node_path :> node_def) @@ @,
                      !._downstream = (node_path :> << >>) @@ @,
                      !._upstream = (node_path :> << >>) @@ @], node_path)

(***************************************************************************)
(* What can be handed to _store / _pipe:                                   *)
(*   [t |-> "callable", func]          a function, method or object        *)
(*   [t |-> "partial", func, args, keywords]   functools.partial           *)
(*   [t |-> "NamedFunc", func, name]   node(func, name)                    *)
(*   [t |-> "NodeDef", def]            a node definition of some graph     *)
(*   [t |-> "EdgeDef", node, param]    node_def.param (pipe only)          *)
(*   [t |-> "Graph", id]               a root graph                        *)
(*   [t |-> "SubGraph", root, prefix]  a sub-graph                         *)
(*   [t |-> "other"]                   anything else                       *)
(***************************************************************************)
RECURSIVE _store_node(_, _, _, _, _, _)
\* BaseGraph._store_node
_store_node(B, self, item, name, args, kwargs) ==
    CASE item.t = "NodeDef" ->
           IF item.def.owner = self.root
           THEN Ok(B, item.def.path)
           ELSE _store_node_def(B, NodeDef_rebase(item.def, self.root, self.prefix))
      [] item.t = "partial" ->
           IF args # NoneV \/ kwargs # NoneV
           THEN Raise(B, "ValueError: extra arguments and nesting")
           ELSE _store_node(B, self, item.func, name, Some(item.args), item.keywords)
      [] item.t = "NamedFunc" ->
           _store_node(B, self, item.func, item.name, NoneV, NoneV)
      [] item.t \in {"callable", "Graph"} ->
           \* a Graph is callable and has neither im_func nor func_name
           LET func == IF item.t = "Graph" THEN item.id ELSE item.func
               deduced == IF item.t = "Graph" THEN None ELSE func_name(func)
           IN
           IF name = None /\ deduced = "<lambda>"
           THEN Raise(B, "ValueError: anonymous lambda")
           ELSE IF name = None /\ deduced = None
           THEN Raise(B, "ValueError: can't deduce name")
           ELSE _store_node_def(B, NodeDef(self.root, func, self.prefix,
                                           IF name = None THEN deduced ELSE name,
                                           args, kwargs))
      [] OTHER -> Raise(B, "ValueError: unsupported node specification")

RECURSIVE PipeVertices(_, _, _, _, _)
\* BaseGraph._pipe, first loop: store every item, collect the vertices
PipeVertices(B, self, nodes, i, vertices) ==
    IF i > Len(nodes) THEN [B |-> B, err |-> "", vertices |-> vertices]
    ELSE LET item == nodes[i]
             isEdge == item.t = "EdgeDef"
             r == _store_node(B, self, IF isEdge THEN item.node ELSE item,
                              None, NoneV, NoneV)
         IN IF r.err # ""
            THEN [B |-> r.B, err |-> r.err, vertices |-> vertices]
            ELSE PipeVertices(r.B, self, nodes, i + 1,
                              Append(vertices,
                                     EdgeDef(r.ret, IF isEdge THEN item.param ELSE None)))

\* one pass of the second loop of _pipe, with the mirror edge left out
LinkDownstreamOnly(B, source, target) ==
    [B EXCEPT !._downstream[source.node] = Append(@, target)]

\* one pass of the second loop of _pipe that adds no edge already held
link_unless_present(B, source, target) ==
    IF InList(target, B._downstream[source.node]) THEN B
    ELSE [B EXCEPT !._downstream[source.node] = Append(@, target),
                   !._upstream[target.node] = Append(@, EdgeDef(source.node, target.param))]

\* BaseGraph._pipe, one pass of the second loop: the edge and its mirror
Link(B, source, target) ==
    [B EXCEPT !._downstream[source.node] = Append(@, target),
              !._upstream[target.node] = Append(@, EdgeDef(source.node, target.param))]

RECURSIVE PipeEdges(_, _, _)
\* BaseGraph._pipe, second loop
PipeEdges(B, vertices, i) ==
    IF i > Len(vertices) THEN B
    ELSE PipeEdges(Link(B, vertices[i - 1], vertices[i]), vertices, i + 1)

\* BaseGraph._pipe
_pipe(B, self, nodes) ==
    LET v == PipeVertices(B, self, nodes, 1, << >>) IN
    IF v.err # "" THEN Raise(v.B, v.err)
    ELSE Ok(PipeEdges(v.B, v.vertices, 2), << >>)

\* BaseGraph.pipe
pipe(B, self, nodes) ==
    IF Len(nodes) < 2 THEN Raise(B, "ValueError: at least two nodes")
    ELSE _pipe(B, self, nodes)

RECURSIVE join(_, _, _, _)
\* BaseGraph.join: _pipe((from_node, target)) for each from_node in turn; an
\* error ends the loop with the pairs piped so far in place
join(B, self, from_nodes, target) ==
    IF from_nodes = << >> THEN Ok(B, << >>)
    ELSE LET r == _pipe(B, self, <<Head(from_nodes), target>>) IN
         IF r.err # "" THEN r ELSE join(r.B, self, Tail(from_nodes), target)

RECURSIVE fan(_, _, _, _)
\* BaseGraph.fan: _pipe((from_node, target)) for each target in turn
fan(B, self, from_node, targets) ==
    IF targets = << >> THEN Ok(B, << >>)
    ELSE LET r == _pipe(B, self, <<from_node, Head(targets)>>) IN
         IF r.err # "" THEN r ELSE fan(r.B, self, from_node, Tail(targets))

(***************************************************************************)
(* Merging a root graph `src` = [id, B] into the graph `self` of the       *)
(* blueprint B.  When src is the root of self, the source's dicts are the  *)
(* destination's own, and are read as the merge has left them so far.      *)
(***************************************************************************)
Source(B, src, root) == IF src.id = root THEN B ELSE src.B

RECURSIVE _copy_structure(_, _, _, _, _, _, _)
RECURSIVE CopyItems(_, _, _, _, _, _, _, _)
\* _store_graph._copy_structure, the loop over source_graph._items.items().
\* target_is_graph is FALSE when the "graph" found under the key in the
\* target is a NodeDef, whose every attribute is an EdgeDef tuple.
CopyItems(B, src, root, source_prefix, target_is_graph, prefix, keys, depth) ==
    IF keys = << >> THEN Ok(B, << >>)
    ELSE
      LET key == Head(keys)
          value == Source(B, src, root)._items[Append(source_prefix, key)]
          r == IF value.kind = "NodeDef"
               THEN IF ~target_is_graph
                    THEN Raise(B, "TypeError: 'EdgeDef' object is not callable")
                    ELSE _store_node(B, Self(root, prefix),
                                     [t |-> "NodeDef", def |-> value], None, NoneV, NoneV)
               ELSE IF ~target_is_graph
                    THEN Raise(B, "TypeError: tuple indices must be integers")
                    ELSE LET new_prefix == Append(prefix, key)
                             B1 == IF new_prefix \in DOMAIN B._items THEN B
                                   ELSE [B EXCEPT !._items =
                                            (new_prefix :> SubGraph(new_prefix, root)) @@ @]
                         IN _copy_structure(B1, src, root, Append(source_prefix, key),
                                            B1._items[new_prefix].kind = "SubGraph",
                                            new_prefix, depth + 1)
      IN IF r.err # "" THEN r
         ELSE CopyItems(r.B, src, root, source_prefix, target_is_graph, prefix,
                        Tail(keys), depth)

\* _store_graph._copy_structure
_copy_structure(B, src, root, source_prefix, target_is_graph, prefix, depth) ==
    IF depth > RecursionLimit
    THEN Raise(B, "RuntimeError: maximum recursion depth exceeded")
    ELSE CopyItems(B, src, root, source_prefix, target_is_graph, prefix,
                   SetToSeq(ItemKeys(Source(B, src, root), source_prefix)), depth)

\* the rebased edges appended with no look at what the target holds
KeepAll(rebased, target_edge) == rebased

\* the rebased edges that a pair-only comparison (no parameter) lets through
AbsentByNode(rebased, target_edge) ==
    SelectSeq(rebased, LAMBDA e : ~\E i \in 1..Len(target_edge) : target_edge[i].node = e.node)

\* _copy_edges, first pass: the rebased edges not already in target_edge
Absent(rebased, target_edge) == SelectNotIn(rebased, target_edge)

\* the edge as it is in the source, its path not rebased
NotRebased(prefix, target) == EdgeDef(target.node, target.param)

\* _copy_edges: EdgeDef(root._prefix + target.node, target.param)
Rebased(prefix, target) == EdgeDef(prefix \o target.node, target.param)

RECURSIVE CopyEdgeKeys(_, _, _, _, _)
\* _store_graph._copy_edges, the loop over source_edges.items()
CopyEdgeKeys(target_edges, source_edges, same, root_prefix, keys) ==
    IF keys = << >> THEN [edges |-> target_edges, err |-> ""]
    ELSE
      LET source == Head(keys)
          tkey == root_prefix \o source
      IN IF tkey \notin DOMAIN target_edges
         THEN [edges |-> target_edges, err |-> "KeyError"]
         ELSE LET targets == IF same THEN target_edges[source] ELSE source_edges[source]
                  target_edge == target_edges[tkey]
                  rebased == [i \in 1..Len(targets) |-> Rebased(root_prefix, targets[i])]
                  rebased_targets == Absent(rebased, target_edge)
              IN CopyEdgeKeys([target_edges EXCEPT ![tkey] = @ \o rebased_targets],
                              source_edges, same, root_prefix, Tail(keys))

\* _store_graph._copy_edges
_copy_edges(source_edges, target_edges, same, root_prefix) ==
    CopyEdgeKeys(target_edges, source_edges, same, root_prefix,
                 SetToSeq(DOMAIN source_edges))

\* a self check that never finds the graph to be the destination
never_same_graph(self, src) == FALSE

\* _store_graph, `graph == self`: the source is the very object the merge
\* goes into, the root graph self
SameGraph(self, src) == src.id = self.root /\ self.prefix = << >>

\* BaseGraph._store_graph
_store_graph(B, self, src, name) ==
    IF SameGraph(self, src)
    THEN Raise(B, "ValueError: Cannot add graph into itself")
    ELSE
      LET named == name # None
          rpath == IF named THEN Append(self.prefix, name) ELSE self.prefix
          held == named /\ rpath \in DOMAIN B._items
          same == src.id = self.root
          \* self._copy_edges(root._upstream, self._upstream, root)
          upstream(B2, up) ==
              IF up.err # "" THEN Raise([B2 EXCEPT !._upstream = up.edges], up.err)
              ELSE Ok([B2 EXCEPT !._upstream = up.edges], << >>)
          \* self._copy_edges(root._downstream, self._downstream, root)
          downstream(B1, dn) ==
              IF dn.err # "" THEN Raise([B1 EXCEPT !._downstream = dn.edges], dn.err)
              ELSE upstream([B1 EXCEPT !._downstream = dn.edges],
                            _copy_edges(IF same THEN B1._upstream ELSE src.B._upstream,
                                        B1._upstream, same, rpath))
          \* after _copy_structure(self, root)
          edges(cs) ==
              IF cs.err # "" THEN cs
              ELSE downstream(cs.B, _copy_edges(Source(cs.B, src, self.root)._downstream,
                                                cs.B._downstream, same, rpath))
      IN IF held /\ B._items[rpath].kind = "NodeDef"
         THEN Raise(B, "ValueError: Graph already contains node")
         ELSE edges(_copy_structure(
                      IF named /\ ~held
                      THEN [B EXCEPT !._items = (rpath :> SubGraph(rpath, self.root)) @@ @]
                      ELSE B,
                      src, self.root, << >>, TRUE, rpath, 1))

\* BaseGraph._store
_store(B, self, item, name) ==
    CASE item.t = "SubGraph" -> Raise(B, "ValueError: Merging sub-graphs is not supported")
      [] item.t = "Graph" -> _store_graph(B, self, [id |-> item.id, B |-> item.B], name)
      [] OTHER -> _store_node(B, self, item, name, NoneV, NoneV)

(***************************************************************************)
(* pypeline/context.py                                                     *)
(***************************************************************************)
\* params(*args, **kwargs): the _params namedtuple
_params(args, kwargs) == [args |-> args, kwargs |-> kwargs]
\* group(**kwargs): a dict
group(kwargs) == [group |-> kwargs]
\* isinstance(v, _params), isinstance(v, dict)
IsParams(v) == DOMAIN v = {"args", "kwargs"}
IsDict(v) == DOMAIN v = {"group"}

\* a reference to the NodeState stored at a path, and a string, as values
NodeRef(path) == [ref |-> path]
Str(s) == [str |-> s]
IsNodeState(v) == DOMAIN v = {"ref"}

\* what the callable f returns for the arguments it was bound to: an opaque
\* value of exactly these inputs, which c wraps in a params bundle
Returned(f, args, kwargs) ==
    LET v == [func |-> f, a |-> args, k |-> kwargs] IN
    IF ReturnsParams(f) THEN _params(<<v>>, "ping" :> Str("pong")) ELSE v

\* Python's binding of a call f(*args, **kwargs) to the signature of f:
\* TRUE when the call raises TypeError before f runs
BindFails(f, args, kwargs) ==
    LET spec == getargspec(f)
        n == Len(spec.args)
    IN \/ Len(args) > n
       \/ \E k \in DOMAIN kwargs :
             /\ spec.keywords = None
             /\ \A i \in 1..n : spec.args[i] # k
       \/ \E i \in 1..n : i <= Len(args) /\ spec.args[i] \in DOMAIN kwargs
       \/ \E i \in 1..n : /\ i > Len(args)
                          /\ i <= n - spec.ndefaults
                          /\ spec.args[i] \notin DOMAIN kwargs

\* TRUE when the body of f raises for the arguments it was bound to: r
\* raises unless its fudge is 1
Raises(f, args, kwargs) ==
    /\ f = "r"
    /\ (IF Len(args) >= 2 THEN args[2] ELSE kwargs["fudge"]) # Lit(1)

\* NodeArgSpec.__contains__
NodeArgSpec_contains(spec, item) == \E i \in 1..Len(spec.args) : spec.args[i] = item

\* NodeStateBase.__init__ and NodeState.__init__
NodeState(name, func, args, kwargs) ==
    [name |-> name, func |-> func, upstream |-> << >>, downstream |-> << >>,
     _cache |-> NoneVal, _dirty |-> TRUE, _args_spec |-> getargspec(func),
     _args |-> args, _kwargs |-> kwargs]

\* ParamTargetNodeStateWrapper.__init__
ParamTargetNodeStateWrapper(param_name, state) ==
    [wrapper |-> TRUE, _param_name |-> param_name, _state |-> state]

\* an upstream peer that is the NodeState itself
Direct(state) == [wrapper |-> FALSE, _param_name |-> Str(None), _state |-> state]

\* NodeState._set_args
_set_args(self, args) == [self EXCEPT !._args = args]

\* _set_kwargs with the signature filter left out
set_kwargs_unfiltered(self, kwargs, replace) ==
    [self EXCEPT !._kwargs = DictUpdate(IF replace THEN EmptyDict ELSE @, kwargs)]

\* NodeState._set_kwargs
_set_kwargs(self, kwargs, replace) ==
    LET old == IF replace THEN EmptyDict ELSE self._kwargs
        kept == IF self._args_spec.keywords = None
                THEN {k \in DOMAIN kwargs : NodeArgSpec_contains(self._args_spec, k)}
                ELSE DOMAIN kwargs
    IN [self EXCEPT !._kwargs = DictUpdate(old, [k \in kept |-> kwargs[k]])]

\* an invalidation that stops at the node itself
invalidate_self_only(N, n) ==
    IF ~N[n]._dirty THEN [N EXCEPT ![n]._dirty = TRUE, ![n]._cache = NoneVal] ELSE N

RECURSIVE _invalidate(_, _)
RECURSIVE InvalidateEach(_, _, _)
\* NodeStateBase._invalidate, the loop over self.downstream
InvalidateEach(N, peers, i) ==
    IF i > Len(peers) THEN N
    ELSE InvalidateEach(_invalidate(N, peers[i]), peers, i + 1)

\* an invalidation that marks the nodes dirty and leaves their caches
invalidate_keeps_cache(N, n) ==
    IF ~N[n]._dirty
    THEN InvalidateEach([N EXCEPT ![n]._dirty = TRUE], N[n].downstream, 1)
    ELSE N

\* NodeStateBase._invalidate; N is the map path -> NodeState
_invalidate(N, n) ==
    IF ~N[n]._dirty
    THEN InvalidateEach([N EXCEPT ![n]._dirty = TRUE, ![n]._cache = NoneVal],
                        N[n].downstream, 1)
    ELSE N

RECURSIVE invalidate_logged(_, _)
RECURSIVE InvalidateEachLogged(_, _, _)
\* the loop over self.downstream, with the log
InvalidateEachLogged(L, peers, i) ==
    IF i > Len(peers) THEN L
    ELSE InvalidateEachLogged(invalidate_logged(L, peers[i]), peers, i + 1)

\* an _invalidate that marks the node on every call, dirty or not
invalidate_marks_each_visit(L, n) ==
    LET L1 == [L EXCEPT !.visits = @ + 1, !.marked = Append(@, n),
                        !.N[n]._dirty = TRUE, !.N[n]._cache = NoneVal]
    IN IF ~L.N[n]._dirty THEN InvalidateEachLogged(L1, L.N[n].downstream, 1) ELSE L1

\* NodeStateBase._invalidate, one invalidation event with its work written
\* down: L.N the node states, L.marked the nodes it marked dirty, in order,
\* L.visits the number of calls of _invalidate it made
invalidate_logged(L, n) ==
    IF ~L.N[n]._dirty
    THEN InvalidateEachLogged([L EXCEPT !.visits = @ + 1, !.marked = Append(@, n),
                                        !.N[n]._dirty = TRUE, !.N[n]._cache = NoneVal],
                              L.N[n].downstream, 1)
    ELSE [L EXCEPT !.visits = @ + 1]

\* the invalidation event that node.set / node.update start at node n
InvalidationEvent(N, n) == invalidate_logged([N |-> N, marked |-> << >>, visits |-> 0], n)

\* _set_params that stores the parameters and invalidates nothing
set_params_noinvalidate(N, n, args, kwargs) ==
    [N EXCEPT ![n] = _set_kwargs(_set_args(@, args), kwargs, TRUE)]

\* NodeState._set_params
NodeState_set_params(N, n, args, kwargs) ==
    _invalidate([N EXCEPT ![n] = _set_kwargs(_set_args(@, args), kwargs, TRUE)], n)

\* an update that starts from an empty kwargs dict, as _set_params does
update_replacing(N, n, kwargs) ==
    _invalidate([N EXCEPT ![n] = _set_kwargs(@, kwargs, TRUE)], n)

\* NodeState.update
NodeState_update(N, n, kwargs) ==
    _invalidate([N EXCEPT ![n] = _set_kwargs(@, kwargs, FALSE)], n)

(***************************************************************************)
(* Evaluation.  An evaluation yields the node states it leaves, the value  *)
(* returned, the error raised ("" for none) and the nodes whose callable   *)
(* ran to completion, in order.  `stack` holds the nodes whose cached      *)
(* evaluation is in progress: re-entering one of them, still dirty, is a   *)
(* recursion with no end, which the interpreter ends with a RuntimeError.  *)
(***************************************************************************)
Value(N, v, calls) == [N |-> N, val |-> v, err |-> "", calls |-> calls]
Error(N, e, calls) == [N |-> N, val |-> NoneVal, err |-> e, calls |-> calls]

RECURSIVE NodeState_eval_cached(_, _, _)
RECURSIVE _eval(_, _, _, _, _)
RECURSIVE EvalUpstream(_, _, _, _, _, _, _)

\* ParamTargetNodeStateWrapper._eval_cached
Wrapper_eval_cached(N, self, stack) ==
    IF ~IsNodeState(self._state)
    THEN Error(N, "AttributeError: no attribute _eval_cached", << >>)
    ELSE LET r == NodeState_eval_cached(N, self._state.ref, stack) IN
         IF r.err # "" THEN r
         ELSE IF IsNodeState(self._param_name)
         THEN Error(r.N, "TypeError: keywords must be strings", r.calls)
         ELSE Value(r.N, _params(<< >>, self._param_name.str :> r.val), r.calls)

\* NodeState._eval, the loop over self.upstream
EvalUpstream(N, ups, i, stack, combined_args, combined_kwargs, calls) ==
    IF i > Len(ups)
    THEN [N |-> N, err |-> "", args |-> combined_args, kwargs |-> combined_kwargs,
          calls |-> calls]
    ELSE
      LET r == IF ups[i].wrapper
               THEN Wrapper_eval_cached(N, ups[i], stack)
               ELSE NodeState_eval_cached(N, ups[i]._state.ref, stack)
          incoming == r.val
      IN IF r.err # ""
         THEN [N |-> r.N, err |-> r.err, args |-> combined_args,
               kwargs |-> combined_kwargs, calls |-> calls \o r.calls]
         ELSE IF IsParams(incoming)
         THEN EvalUpstream(r.N, ups, i + 1, stack, combined_args \o incoming.args,
                           DictUpdate(combined_kwargs, incoming.kwargs), calls \o r.calls)
         ELSE EvalUpstream(r.N, ups, i + 1, stack, Append(combined_args, incoming),
                           combined_kwargs, calls \o r.calls)

\* NodeState._eval with the node's own positional args put before the
\* results of the upstream peers
eval_own_args_first(N, n, args, kwargs, stack) ==
    LET u == EvalUpstream(N, N[n].upstream, 1, stack, << >>, kwargs, << >>) IN
    IF u.err # "" THEN Error(u.N, u.err, u.calls)
    ELSE LET combined_args == args \o u.args IN
         IF BindFails(N[n].func, combined_args, u.kwargs)
         THEN Error(u.N, "TypeError", u.calls)
         ELSE IF Raises(N[n].func, combined_args, u.kwargs)
         THEN Error(u.N, "ValueError", u.calls)
         ELSE Value(u.N, Returned(N[n].func, combined_args, u.kwargs),
                    Append(u.calls, n))

\* NodeState._eval
_eval(N, n, args, kwargs, stack) ==
    LET u == EvalUpstream(N, N[n].upstream, 1, stack, << >>, kwargs, << >>) IN
    IF u.err # "" THEN Error(u.N, u.err, u.calls)
    ELSE LET combined_args == u.args \o args IN
         IF BindFails(N[n].func, combined_args, u.kwargs)
         THEN Error(u.N, "TypeError", u.calls)
         ELSE IF Raises(N[n].func, combined_args, u.kwargs)
         THEN Error(u.N, "ValueError", u.calls)
         ELSE Value(u.N, Returned(N[n].func, combined_args, u.kwargs),
                    Append(u.calls, n))

\* _eval_cached that evaluates whether or not the node is dirty
eval_cached_always(N, n, stack) ==
    IF n \in stack
    THEN Error(N, "RuntimeError: maximum recursion depth exceeded", << >>)
    ELSE LET r == _eval(N, n, N[n]._args, N[n]._kwargs, stack \cup {n}) IN
         IF r.err # "" THEN r
         ELSE Value([r.N EXCEPT ![n]._cache = r.val, ![n]._dirty = FALSE],
                    r.val, r.calls)

\* _eval_cached that clears the dirty flag before it evaluates
eval_cached_clean_first(N, n, stack) ==
    IF N[n]._dirty
    THEN IF n \in stack
         THEN Error(N, "RuntimeError: maximum recursion depth exceeded", << >>)
         ELSE LET r == _eval(N, n, N[n]._args, N[n]._kwargs, stack \cup {n}) IN
              IF r.err # "" THEN [r EXCEPT !.N[n]._dirty = FALSE]
              ELSE Value([r.N EXCEPT ![n]._cache = r.val, ![n]._dirty = FALSE],
                         r.val, r.calls)
    ELSE Value(N, N[n]._cache, << >>)

\* NodeState._eval_cached
NodeState_eval_cached(N, n, stack) ==
    IF N[n]._dirty
    THEN IF n \in stack
         THEN Error(N, "RuntimeError: maximum recursion depth exceeded", << >>)
         ELSE LET r == _eval(N, n, N[n]._args, N[n]._kwargs, stack \cup {n}) IN
              IF r.err # "" THEN r
              ELSE Value([r.N EXCEPT ![n]._cache = r.val, ![n]._dirty = FALSE],
                         r.val, r.calls)
    ELSE Value(N, N[n]._cache, << >>)

\* a direct call that keeps its result as the node's cache
call_and_cache(N, n, args, kwargs) ==
    LET cached(r) == IF r.err # "" THEN r
                     ELSE Value([r.N EXCEPT ![n]._cache = r.val, ![n]._dirty = FALSE],
                                r.val, r.calls)
    IN cached(_eval(N, n, args, kwargs, {}))

\* NodeStateBase.__call__
NodeState_call(N, n, args, kwargs) == _eval(N, n, args, kwargs, {})

(***************************************************************************)
(* NodeGroup.  The items of the Context and of every nested NodeGroup are  *)
(* kept by absolute path: C._nodes maps a path to its NodeState, C._groups *)
(* holds the paths of the nested groups; the Context is the group << >>.   *)
(***************************************************************************)
\* the keys of group._items, for the group at path P
GroupKeys(C, P) ==
    {p[Len(p)] : p \in {q \in DOMAIN C._nodes \cup C._groups :
                            Len(q) = Len(P) + 1 /\ SubSeq(q, 1, Len(P)) = P}}

Done(N) == [N |-> N, err |-> ""]
Fail(N, e) == [N |-> N, err |-> e]

RECURSIVE SetGlobalInputs(_, _, _)
\* the global parameters merged into the given nodes, those with upstream
\* edges passed over
SetGlobalInputs(N, global_params, paths) ==
    IF paths = << >> THEN N
    ELSE LET item == Head(paths) IN
         SetGlobalInputs(IF N[item].upstream = << >>
                         THEN _invalidate([N EXCEPT ![item] =
                                             _set_kwargs(@, global_params, FALSE)], item)
                         ELSE N,
                         global_params, Tail(paths))

\* a broadcast that reaches only the input nodes of the group at P
set_global_params_inputs_only(C, N, P, global_params) ==
    SetGlobalInputs(N, global_params,
                    SetToSeq({q \in DOMAIN N : Len(q) > Len(P) /\ SubSeq(q, 1, Len(P)) = P}))

RECURSIVE SetGlobalAll(_, _, _)
\* the global parameters merged into each of the given nodes
SetGlobalAll(N, global_params, paths) ==
    IF paths = << >> THEN N
    ELSE SetGlobalAll(_invalidate([N EXCEPT ![Head(paths)] =
                                     _set_kwargs(@, global_params, FALSE)], Head(paths)),
                      global_params, Tail(paths))

\* a broadcast that starts at the Context instead of the group at P
set_global_params_from_root(C, N, P, global_params) ==
    SetGlobalAll(N, global_params, SetToSeq(DOMAIN N))

RECURSIVE _set_global_params(_, _, _, _)
RECURSIVE SetGlobalEach(_, _, _, _, _)
\* NodeGroup._set_global_params, the loop over self._items.values()
SetGlobalEach(C, N, P, global_params, keys) ==
    IF keys = << >> THEN N
    ELSE LET item == Append(P, Head(keys))
             N1 == IF item \in DOMAIN N
                   THEN _invalidate([N EXCEPT ![item] = _set_kwargs(@, global_params, FALSE)],
                                    item)
                   ELSE _set_global_params(C, N, item, global_params)
         IN SetGlobalEach(C, N1, P, global_params, Tail(keys))

\* NodeGroup._set_global_params
_set_global_params(C, N, P, global_params) ==
    SetGlobalEach(C, N, P, global_params, SetToSeq(GroupKeys(C, P)))

\* the kwargs a specific entry is stored with, the specific keys under the
\* global ones
GlobalOverSpecific(global_params, kwargs) == DictUpdate(kwargs, global_params)

\* the kwargs a specific entry is stored with, the global entries dropped
SpecificOnly(global_params, kwargs) == kwargs

\* _set_params_spec: dict(global_params, **item_params.kwargs)
SpecificOverGlobal(global_params, kwargs) == DictUpdate(global_params, kwargs)

RECURSIVE _set_params_spec(_, _, _, _, _)
RECURSIVE SetSpecEach(_, _, _, _, _, _)
\* NodeGroup._set_params_spec, the loop over spec_params.iteritems()
SetSpecEach(C, N, P, spec_params, global_params, keys) ==
    IF keys = << >> THEN Done(N)
    ELSE
      LET item_key == Head(keys)
          item_params == spec_params[item_key]
          item == Append(P, item_key)
          isNode == item \in DOMAIN N
          isGroup == item \in C._groups
          r == CASE ~IsParams(item_params) /\ ~IsDict(item_params) ->
                      Fail(N, "ValueError: Unsupported parameter specification")
                 [] ~isNode /\ ~isGroup -> Fail(N, "KeyError")
                 [] IsParams(item_params) /\ isNode ->
                      Done(NodeState_set_params(N, item, item_params.args,
                              SpecificOverGlobal(global_params, item_params.kwargs)))
                 [] IsParams(item_params) /\ isGroup ->
                      Fail(N, "TypeError: _set_params() takes exactly 2 arguments")
                 [] IsDict(item_params) /\ isNode ->
                      Fail(N, "AttributeError: no attribute _set_params_spec")
                 [] OTHER ->
                      _set_params_spec(C, N, item, item_params.group, global_params)
      IN IF r.err # "" THEN r
         ELSE SetSpecEach(C, r.N, P, spec_params, global_params, Tail(keys))

\* NodeGroup._set_params_spec
_set_params_spec(C, N, P, spec_params, global_params) ==
    SetSpecEach(C, N, P, spec_params, global_params, SetToSeq(DOMAIN spec_params))

\* NodeGroup._set_params
NodeGroup_set_params(C, P, kwargs) ==
    LET names == GroupKeys(C, P)
        spec_params == [k \in DOMAIN kwargs \cap names |-> kwargs[k]]
        global_params == [k \in DOMAIN kwargs \ names |-> kwargs[k]]
        N1 == IF DOMAIN global_params # {}
              THEN _set_global_params(C, C._nodes, P, global_params)
              ELSE C._nodes
    IN IF DOMAIN spec_params # {}
       THEN _set_params_spec(C, N1, P, spec_params, global_params)
       ELSE Done(N1)

\* Context.__init__, _upstream_wire with the wrapper's arguments in the order
\* its constructor declares them
upstream_wire_declared_order(target) ==
    IF target.param = None THEN Direct(NodeRef(target.node))
    ELSE ParamTargetNodeStateWrapper(Str(target.param), NodeRef(target.node))

\* Context.__init__, _upstream_wire: the peer appended for one upstream edge
_upstream_wire(target) ==
    IF target.param = None THEN Direct(NodeRef(target.node))
    ELSE ParamTargetNodeStateWrapper(NodeRef(target.node), Str(target.param))

\* Context.__init__, up to the wiring: _walk_graph and the two _parse_edges
Wired(B) ==
    LET paths == {q \in DOMAIN B._items : B._items[q].kind = "NodeDef"} IN
    [_groups |-> {q \in DOMAIN B._items : B._items[q].kind = "SubGraph"},
     _nodes |->
        [q \in paths |->
            [NodeState(B._items[q].name, B._items[q].func, B._items[q].args,
                       B._items[q].kwargs)
             EXCEPT !.downstream = [i \in 1..Len(B._downstream[q]) |->
                                        B._downstream[q][i].node],
                    !.upstream = [i \in 1..Len(B._upstream[q]) |->
                                        _upstream_wire(B._upstream[q][i])]]]]

\* Context.__init__(graph_blueprint, kwargs)
Context(B, kwargs) ==
    LET C == Wired(B)
        r == NodeGroup_set_params(C, << >>, kwargs)
    IN [C |-> [C EXCEPT !._nodes = r.N], err |-> r.err]

RECURSIVE StoreAll(_, _, _, _)
\* the loop of Graph.__init__ and of BaseGraph.union over unnamed items
StoreAll(B, self, items, i) ==
    IF i > Len(items) THEN Ok(B, << >>)
    ELSE LET r == _store(B, self, items[i], None) IN
         IF r.err # "" THEN r ELSE StoreAll(r.B, self, items, i + 1)

\* Graph.__init__(*items)
Graph(id, items) == StoreAll(EmptyGraph, Self(id, << >>), items, 1)

\* a bare callable as an item
Callable(f) == [t |-> "callable", func |-> f]
\* functools.partial(f, *args, **keywords)
Partial(f, args, keywords) ==
    [t |-> "partial", func |-> Callable(f), args |-> args, keywords |-> keywords]
\* graph.name, for a node: the NodeDef object
NodeItem(def) == [t |-> "NodeDef", def |-> def]
\* graph.name.param: NodeDef.__getattr__
EdgeItem(def, param) == [t |-> "EdgeDef", node |-> NodeItem(def), param |-> param]
\* a root graph as an item
GraphItem(id, B) == [t |-> "Graph", id |-> id, B |-> B]

\* pypeline.graph.pipe(*args)
module_pipe(id, args) ==
    IF Len(args) = 1
    THEN Graph(id, <<[t |-> "other"]>>)   \* Graph(args): the tuple is the one item
    ELSE _pipe(EmptyGraph, Self(id, << >>), args)

\* before any operation: what `out` and `gout` hold
NoOut == [op |-> "init", node |-> << >>, args |-> << >>, kwargs |-> EmptyDict,
          val |-> NoneVal, err |-> "", calls |-> << >>]
NoGout == [op |-> "init", g |-> "g", prefix |-> << >>, name |-> None,
           item |-> [t |-> "other"], nodes |-> << >>, err |-> "", n |-> 0]

(***************************************************************************)
(* The blueprints the context machine is built from, made with the         *)
(* operations of graph.py.                                                 *)
(***************************************************************************)
\* graph.pipe(graph.x, graph.y, ...) for the nodes at the given paths
PipePaths(B, paths) ==
    _pipe(B, Self("g", << >>), [i \in 1..Len(paths) |-> NodeItem(B._items[paths[i]])]).B

\* pipe(partial(a, 1), kw, partial(b, fudge=1)): a -> kw -> b
Chain ==
    module_pipe("g", <<Partial("a", <<Lit(1)>>, NoneV), Callable("kw"),
                       Partial("b", << >>, Some("fudge" :> Lit(1)))>>).B

\* a -> b -> d and a -> e -> d, e being node(d, "e")
Diamond ==
    LET B0 == Graph("g", <<Partial("a", <<Lit(1)>>, NoneV),
                           Partial("b", << >>, Some("fudge" :> Lit(1))),
                           [t |-> "NamedFunc", func |-> Callable("d"), name |-> "e"],
                           Callable("d")>>).B
    IN PipePaths(PipePaths(B0, << <<"a">>, <<"b">>, <<"d">> >>),
                 << <<"a">>, <<"e">>, <<"d">> >>)

\* Graph(partial(a, 1), sub=Graph(c, sub=Graph(partial(d, ping=1)))), piped
\* a -> sub.c -> sub.sub.d: d binds the keyword ping, which the bundle that
\* c returns binds as well
Nested ==
    LET D == Graph("g2", <<Partial("d", << >>, Some("ping" :> Lit(1)))>>).B
        C == _store(Graph("g1", <<Callable("c")>>).B, Self("g1", << >>),
                    GraphItem("g2", D), "sub").B
        B0 == _store(Graph("g", <<Partial("a", <<Lit(1)>>, NoneV)>>).B,
                     Self("g", << >>), GraphItem("g1", C), "sub").B
    IN PipePaths(B0, << <<"a">>, <<"sub", "c">>, <<"sub", "sub", "d">> >>)

\* Graph(partial(a, 1), partial(b, 1)) with graph.pipe(graph.a, graph.b.fudge)
ParamEdge ==
    LET B0 == Graph("g", <<Partial("a", <<Lit(1)>>, NoneV),
                           Partial("b", <<Lit(1)>>, NoneV)>>).B
    IN _pipe(B0, Self("g", << >>),
             <<NodeItem(B0._items[<<"a">>]), EdgeItem(B0._items[<<"b">>], "fudge")>>).B

\* Graph(partial(b, fudge=1), sub=Graph(partial(a, 1))), piped sub.a -> b:
\* a node of the sub-graph feeds a node outside it
Outflow ==
    LET A == Graph("g1", <<Partial("a", <<Lit(1)>>, NoneV)>>).B
        B0 == _store(Graph("g", <<Partial("b", << >>, Some("fudge" :> Lit(1)))>>).B,
                     Self("g", << >>), GraphItem("g1", A), "sub").B
    IN PipePaths(B0, << <<"sub", "a">>, <<"b">> >>)

\* pipe(partial(a, 1), partial(r, fudge=1), partial(b, fudge=1)):
\* a -> r -> b, r raising once its fudge is set to something else
Guarded ==
    module_pipe("g", <<Partial("a", <<Lit(1)>>, NoneV),
                       Partial("r", << >>, Some("fudge" :> Lit(1))),
                       Partial("b", << >>, Some("fudge" :> Lit(1)))>>).B

\* Graph(partial(a, 1), partial(b, fudge=1), d) with graph.pipe(a, b, d, b):
\* a -> b -> d -> b, a wiring with a cycle
Loop ==
    LET B0 == Graph("g", <<Partial("a", <<Lit(1)>>, NoneV),
                           Partial("b", << >>, Some("fudge" :> Lit(1))),
                           Callable("d")>>).B
    IN PipePaths(B0, << <<"a">>, <<"b">>, <<"d">>, <<"b">> >>)

Blueprints == {Chain, Diamond, Nested, ParamEdge, Outflow, Guarded, Loop}

(***************************************************************************)
(* The blueprint machine: the program holds the graphs g and g1 and        *)
(* applies the construction operations to them.                            *)
(***************************************************************************)
GraphIds == {"g", "g1"}

\* the node definitions of a blueprint, and the sub-graph paths
NodeDefs(B) == {B._items[p] : p \in {q \in DOMAIN B._items : B._items[q].kind = "NodeDef"}}
SubGraphs(B) == {q \in DOMAIN B._items : B._items[q].kind = "SubGraph"}
\* the graph objects reachable from a root: the root and its sub-graphs
Selves(B) == {<< >>} \cup SubGraphs(B)

\* the graphs the program starts from
Constructed(id) ==
    { Graph(id, << >>).B,
      Graph(id, <<Callable("b"), Partial("a", <<Lit(1)>>, Some("y" :> Lit(1)))>>).B,
      module_pipe(id, <<Callable("a"), Callable("b")>>).B,
      \* Graph(nested=Graph())
      _store(EmptyGraph, Self(id, << >>), GraphItem("g2", EmptyGraph), "nested").B }

\* what graph[name] = item is tried with
StoreInputs(id) ==
    { <<Callable("b"), None>>, <<Callable("lambda"), None>>,
      <<Partial("b", <<Lit(2)>>, NoneV), "a">>,
      <<Callable("a"), "nested">>,
      <<Callable("obj"), None>>, <<Callable("lambda"), "a">>,
      \* graph["a"] = node(b)
      <<[t |-> "NamedFunc", func |-> Callable("b"), name |-> None], "a">> }
    \cup { <<NodeItem(d), name>> :
              d \in UNION {NodeDefs(graphs[o]) : o \in GraphIds \ {id}},
              name \in {None, "nested"} }

\* the parameter names an edge is aimed at
EdgeParams == {None, "fudge"}

\* what pipe(...) is tried with: node definitions of the graph itself
PipeInputs(id) ==
    LET defs == NodeDefs(graphs[id]) IN
    { <<NodeItem(x), IF p = None THEN NodeItem(y) ELSE EdgeItem(y, p)>> :
          x \in defs, y \in defs, p \in EdgeParams }
    \cup { <<NodeItem(x)>> : x \in defs } \cup { << >> }
    \* graph.pipe(a, d, a) with the functions themselves
    \cup { <<Callable("a"), Callable("d"), Callable("a")>> }

\* what the module-level pipe(...) is tried with: no item, one, two
ModulePipeInputs ==
    { << >>, <<Callable("a")>>, <<Callable("a"), Partial("b", <<Lit(2)>>, NoneV)>> }

\* what join(from_nodes, target) is tried with: two different nodes of the
\* graph into the parameter fudge of the second, and a node and a lambda,
\* which has no name, into that node
JoinInputs(id) ==
    LET defs == NodeDefs(graphs[id]) IN
    { << <<NodeItem(p[1]), NodeItem(p[2])>>, EdgeItem(p[2], "fudge") >> :
          p \in { q \in defs \X defs : q[1] # q[2] } }
    \cup { << <<NodeItem(x), Callable("lambda")>>, NodeItem(x) >> : x \in defs }

\* what fan(from_node, targets) is tried with: a node of the graph into the
\* functions b and d, and into itself and a lambda, which has no name
FanInputs(id) ==
    LET defs == NodeDefs(graphs[id]) IN
    { << NodeItem(x), <<Callable("b"), Callable("d")>> >> : x \in defs }
    \cup { << NodeItem(x), <<NodeItem(x), Callable("lambda")>> >> : x \in defs }

GInit ==
    /\ graphs \in [GraphIds -> UNION {Constructed(i) : i \in GraphIds}]
    /\ \A i \in GraphIds : graphs[i] \in Constructed(i)
    /\ gout = NoGout
    /\ context = Context(EmptyGraph, EmptyDict).C
    /\ out = NoOut
    /\ instances = << >>
    /\ heap = << >>

\* an operation is started only within the model's bounds
InBounds(id, prefix) ==
    /\ gout.n < MaxOps
    /\ Len(prefix) <= MaxDepth
    /\ \A p \in DOMAIN graphs[id]._downstream : Len(graphs[id]._downstream[p]) <= MaxEdges

\* graph[name] = item, for a node-worthy item: __setitem__ -> _store
Store(id, prefix, item, name) ==
    /\ InBounds(id, prefix)
    /\ LET r == _store(graphs[id], Self(id, prefix), item, name) IN
       /\ graphs' = [graphs EXCEPT ![id] = r.B]
       /\ gout' = [op |-> "store", g |-> id, prefix |-> prefix, name |-> name,
                   item |-> item, nodes |-> << >>, err |-> r.err, n |-> gout.n + 1]
    /\ UNCHANGED <<context, out, instances, heap>>

\* graph.union(src) and graph.union(name=src), src a root graph
Union(id, prefix, srcid, name) ==
    /\ InBounds(id, prefix)
    /\ LET item == GraphItem(srcid, graphs[srcid])
           r == _store(graphs[id], Self(id, prefix), item, name)
       IN
       /\ graphs' = [graphs EXCEPT ![id] = r.B]
       /\ gout' = [op |-> "union", g |-> id, prefix |-> prefix, name |-> name,
                   item |-> [t |-> "Graph", id |-> srcid], nodes |-> << >>, err |-> r.err, n |-> gout.n + 1]
    /\ UNCHANGED <<context, out, instances, heap>>

\* graph.pipe(*nodes)
Pipe(id, prefix, nodes) ==
    /\ InBounds(id, prefix)
    /\ LET r == pipe(graphs[id], Self(id, prefix), nodes) IN
       /\ graphs' = [graphs EXCEPT ![id] = r.B]
       /\ gout' = [op |-> "pipe", g |-> id, prefix |-> prefix, name |-> None,
                   item |-> [t |-> "other"], nodes |-> nodes, err |-> r.err,
                   n |-> gout.n + 1]
    /\ UNCHANGED <<context, out, instances, heap>>

\* graph.join(from_nodes, target)
Join(id, prefix, from_nodes, target) ==
    /\ InBounds(id, prefix)
    /\ LET r == join(graphs[id], Self(id, prefix), from_nodes, target) IN
       /\ graphs' = [graphs EXCEPT ![id] = r.B]
       /\ gout' = [op |-> "join", g |-> id, prefix |-> prefix, name |-> None,
                   item |-> target, nodes |-> from_nodes, err |-> r.err,
                   n |-> gout.n + 1]
    /\ UNCHANGED <<context, out, instances, heap>>

\* graph.fan(from_node, targets)
Fan(id, prefix, from_node, targets) ==
    /\ InBounds(id, prefix)
    /\ LET r == fan(graphs[id], Self(id, prefix), from_node, targets) IN
       /\ graphs' = [graphs EXCEPT ![id] = r.B]
       /\ gout' = [op |-> "fan", g |-> id, prefix |-> prefix, name |-> None,
                   item |-> from_node, nodes |-> targets, err |-> r.err,
                   n |-> gout.n + 1]
    /\ UNCHANGED <<context, out, instances, heap>>

\* g = pipe(*args), the module-level constructor: the variable is bound to
\* the new graph unless the call raises
ModulePipe(id, args) ==
    /\ InBounds(id, << >>)
    /\ LET r == module_pipe(id, args) IN
       /\ graphs' = IF r.err = "" THEN [graphs EXCEPT ![id] = r.B] ELSE graphs
       /\ gout' = [op |-> "module.pipe", g |-> id, prefix |-> << >>, name |-> None,
                   item |-> [t |-> "other"], nodes |-> args, err |-> r.err,
                   n |-> gout.n + 1]
    /\ UNCHANGED <<context, out, instances, heap>>

GNext ==
    \/ \E id \in GraphIds : \E prefix \in Selves(graphs[id]) :
         \E in \in StoreInputs(id) : Store(id, prefix, in[1], in[2])
    \/ \E id \in GraphIds : \E prefix \in Selves(graphs[id]) :
         \E srcid \in GraphIds : \E name \in {None, "nested", "a"} :
           Union(id, prefix, srcid, name)
    \/ \E id \in GraphIds : \E prefix \in Selves(graphs[id]) :
         \E nodes \in PipeInputs(id) : Pipe(id, prefix, nodes)
    \/ \E id \in GraphIds : \E args \in ModulePipeInputs : ModulePipe(id, args)
    \/ \E in \in JoinInputs("g") : Join("g", << >>, in[1], in[2])
    \/ \E in \in FanInputs("g") : Fan("g", << >>, in[1], in[2])

GraphSpec == GInit /\ [][GNext]_vars


(***************************************************************************)
(* The context machine: one Context built from a blueprint, and the        *)
(* operations on its nodes and groups.                                     *)
(***************************************************************************)
\* the keyword names callers pass
Keys == {"y", "fudge"}

\* what callers pass as *args and **kwargs
ArgInputs == {<< >>} \cup {<<Lit(v)>> : v \in 1..MaxArg}
KwargInputs == {k :> Lit(MaxVal) : k \in Keys}
SetInputs == {<<<< >>, EmptyDict>>, <<<<Lit(MaxArg)>>, "y" :> Lit(MaxVal)>>,
              <<<< >>, "fudge" :> Lit(MaxVal)>>}
CallInputs == {<<<< >>, EmptyDict>>, <<<<Lit(MaxArg)>>, "y" :> Lit(MaxVal)>>,
               <<<< >>, "ping" :> Lit(MaxVal)>>}

\* what callers pass to group.set: global entries alone, and a global entry
\* with a specific params entry for a child node that binds the same keys;
\* for a child group, a nested group(...) that addresses its child nodes,
\* and one that holds a keyword naming no child
GroupInputs(C, P) ==
    LET nodes == {k \in GroupKeys(C, P) : Append(P, k) \in DOMAIN C._nodes}
        groups == {k \in GroupKeys(C, P) : Append(P, k) \in C._groups}
        specific == {_params(<< >>, "fudge" :> Lit(1)),
                     _params(<<Lit(MaxArg)>>, "y" :> Lit(1))}
        globals == {EmptyDict, "fudge" :> Lit(MaxVal)}
    IN KwargInputs
       \cup {(n :> sp) @@ gl : n \in nodes, sp \in specific, gl \in globals}
       \cup UNION {{(s :> group(n :> _params(<< >>, "fudge" :> Lit(1)))) @@ gl :
                       n \in GroupKeys(C, Append(P, s)), gl \in globals} : s \in groups}
       \cup {s :> group("fudge" :> Lit(MaxVal)) : s \in groups}

\* the keyword arguments a blueprint is called with
InitKwargs == {EmptyDict, "fudge" :> Lit(MaxVal)}

Init ==
    /\ \E B \in Blueprints : \E kwargs \in InitKwargs :
         /\ Context(B, kwargs).err = ""
         /\ context = Context(B, kwargs).C
         /\ graphs = [i \in GraphIds |-> IF i = "g" THEN B ELSE EmptyGraph]
         /\ out = [NoOut EXCEPT !.kwargs = kwargs]
    /\ gout = NoGout
    /\ instances = << >>
    /\ heap = << >>

\* node.val
Val(n) ==
    /\ LET r == NodeState_eval_cached(context._nodes, n, {}) IN
       /\ context' = [context EXCEPT !._nodes = r.N]
       /\ out' = [op |-> "val", node |-> n, args |-> << >>, kwargs |-> EmptyDict,
                  val |-> r.val, err |-> r.err, calls |-> r.calls]
    /\ UNCHANGED <<graphs, gout, instances, heap>>

\* node(*args, **kwargs)
Call(n, args, kwargs) ==
    /\ LET r == NodeState_call(context._nodes, n, args, kwargs) IN
       /\ context' = [context EXCEPT !._nodes = r.N]
       /\ out' = [op |-> "call", node |-> n, args |-> args, kwargs |-> kwargs,
                  val |-> r.val, err |-> r.err, calls |-> r.calls]
    /\ UNCHANGED <<graphs, gout, instances, heap>>

\* node.set(*args, **kwargs)
Set(n, args, kwargs) ==
    /\ context' = [context EXCEPT
                     !._nodes = NodeState_set_params(context._nodes, n, args, kwargs)]
    /\ out' = [NoOut EXCEPT !.op = "set", !.node = n, !.args = args, !.kwargs = kwargs]
    /\ UNCHANGED <<graphs, gout, instances, heap>>

\* node.update(**kwargs)
Update(n, kwargs) ==
    /\ context' = [context EXCEPT !._nodes = NodeState_update(context._nodes, n, kwargs)]
    /\ out' = [NoOut EXCEPT !.op = "update", !.node = n, !.kwargs = kwargs]
    /\ UNCHANGED <<graphs, gout, instances, heap>>

\* group.set(**kwargs), for the Context or a nested group
GroupSet(P, kwargs) ==
    /\ LET r == NodeGroup_set_params(context, P, kwargs) IN
       /\ context' = [context EXCEPT !._nodes = r.N]
       /\ out' = [NoOut EXCEPT !.op = "group.set", !.node = P, !.kwargs = kwargs,
                               !.err = r.err]
    /\ UNCHANGED <<graphs, gout, instances, heap>>

Next ==
    \/ \E n \in DOMAIN context._nodes : Val(n)
    \/ \E n \in DOMAIN context._nodes : \E in \in CallInputs : Call(n, in[1], in[2])
    \/ \E n \in DOMAIN context._nodes : \E in \in SetInputs : Set(n, in[1], in[2])
    \/ \E n \in DOMAIN context._nodes : \E kwargs \in KwargInputs : Update(n, kwargs)
    \/ \E P \in {<< >>} \cup context._groups : \E kwargs \in GroupInputs(context, P) :
         GroupSet(P, kwargs)

Spec == Init /\ [][Next]_vars

(***************************************************************************)
(* Two instances of one blueprint.  A keyword dict is an object: `heap`    *)
(* maps the object to its content, and the _kwargs of a NodeState and the  *)
(* kwargs of a NodeDef name an object.  <<owner, path>> is the dict made   *)
(* for the node at `path` by `owner`: the blueprint (NodeDef.kwargs) or an *)
(* instance.  An update writes into the object the NodeState holds;        *)
(* a set makes a new one (`self._kwargs = {}`).                            *)
(***************************************************************************)
InstanceIds == {"one", "two"}

\* _walk_graph handing the dict value.kwargs itself to the NodeState
kwargs_cell_shared(i, path) == <<"blueprint", path>>

\* _walk_graph, `value.kwargs.copy()`: the dict object the NodeState of
\* instance i at `path` is constructed with, a dict of its own
KwargsCell(i, path) == <<i, path>>

\* pipe(partial(a, 1, y=1), partial(b, fudge=1)): the blueprint instantiated
IsoBlueprint ==
    module_pipe("g", <<Partial("a", <<Lit(1)>>, Some("y" :> Lit(1))),
                       Partial("b", << >>, Some("fudge" :> Lit(1)))>>).B

\* the node states of instance i as its methods see them
Load(inst, h, i) ==
    [p \in DOMAIN inst[i] |-> [inst[i][p] EXCEPT !._kwargs = h[@]]]

\* the node states N of instance i, each holding the dict object it held
Kept(i, N) ==
    [p \in DOMAIN N |-> [N[p] EXCEPT !._kwargs = instances[i][p]._kwargs]]

\* what the blueprint is changed with after the instances were built:
\* graph["a"] = partial(b, 2), an override
IsoStoreInputs == { <<Partial("b", <<Lit(2)>>, NoneV), "a">> }

\* graph.pipe(graph.b, graph.a), adding edges
IsoPipeInputs ==
    { <<NodeItem(graphs["g"]._items[<<"b">>]), NodeItem(graphs["g"]._items[<<"a">>])>> }

\* what callers pass to update and to set on an instance's node
IsoUpdateInputs == { "y" :> Lit(MaxVal) }
IsoSetInputs == { <<<<Lit(MaxArg)>>, EmptyDict>> }

IsoNoOut == [op |-> "init", inst |-> None, node |-> << >>, kwargs |-> EmptyDict,
             val |-> NoneVal, err |-> "", calls |-> << >>]

\* graph = pipe(...); one = graph(); two = graph()
IsoInit ==
    /\ graphs = [i \in GraphIds |->
                   IF i = "g" THEN IsoBlueprint
                   ELSE Graph(i, <<Callable("b"),
                                   Partial("a", <<Lit(1)>>, Some("y" :> Lit(1)))>>).B]
    /\ gout = NoGout
    /\ context = Context(EmptyGraph, EmptyDict).C
    /\ out = IsoNoOut
    /\ instances = [i \in InstanceIds |->
                      [p \in DOMAIN Context(IsoBlueprint, EmptyDict).C._nodes |->
                          [Context(IsoBlueprint, EmptyDict).C._nodes[p]
                           EXCEPT !._kwargs = KwargsCell(i, p)]]]
    /\ heap = [c \in (InstanceIds \cup {"blueprint"})
                        \X DOMAIN Context(IsoBlueprint, EmptyDict).C._nodes |->
                  IsoBlueprint._items[c[2]].kwargs]

\* instance.node.val
IVal(i, n) ==
    /\ LET r == NodeState_eval_cached(Load(instances, heap, i), n, {}) IN
       /\ instances' = [instances EXCEPT ![i] = Kept(i, r.N)]
       /\ out' = [op |-> "val", inst |-> i, node |-> n, kwargs |-> EmptyDict,
                  val |-> r.val, err |-> r.err, calls |-> r.calls]
    /\ UNCHANGED <<graphs, gout, context, heap>>

\* instance.node.update(**kwargs): written into the dict the node holds
IUpdate(i, n, kwargs) ==
    /\ LET N == NodeState_update(Load(instances, heap, i), n, kwargs) IN
       /\ instances' = [instances EXCEPT ![i] = Kept(i, N)]
       /\ heap' = [heap EXCEPT ![instances[i][n]._kwargs] = N[n]._kwargs]
    /\ out' = [IsoNoOut EXCEPT !.op = "update", !.inst = i, !.node = n,
                               !.kwargs = kwargs]
    /\ UNCHANGED <<graphs, gout, context>>

\* instance.node.set(*args, **kwargs): the node takes a new dict
ISet(i, n, args, kwargs) ==
    /\ LET N == NodeState_set_params(Load(instances, heap, i), n, args, kwargs) IN
       /\ instances' = [instances EXCEPT ![i] = [Kept(i, N) EXCEPT ![n]._kwargs = <<i, n>>]]
       /\ heap' = [heap EXCEPT ![<<i, n>>] = N[n]._kwargs]
    /\ out' = [IsoNoOut EXCEPT !.op = "set", !.inst = i, !.node = n, !.kwargs = kwargs]
    /\ UNCHANGED <<graphs, gout, context>>

IsoNext ==
    \/ \E i \in InstanceIds : \E n \in DOMAIN instances[i] : IVal(i, n)
    \/ \E i \in InstanceIds : \E n \in DOMAIN instances[i] :
         \E kwargs \in IsoUpdateInputs : IUpdate(i, n, kwargs)
    \/ \E i \in InstanceIds : \E n \in DOMAIN instances[i] :
         \E in \in IsoSetInputs : ISet(i, n, in[1], in[2])
    \/ \E in \in IsoStoreInputs : Store("g", << >>, in[1], in[2])
    \/ \E nodes \in IsoPipeInputs : Pipe("g", << >>, nodes)
    \/ Union("g", << >>, "g1", None)

IsoSpec == IsoInit /\ [][IsoNext]_vars

(***************************************************************************)
(* Properties of the context machine.                                      *)
(***************************************************************************)
\* whether path q lies in the subtree of the group at path P
Under(P, q) == Len(q) > Len(P) /\ SubSeq(q, 1, Len(P)) = P

\* the nodes that the upstream peers of n stand for
Feeders(N, n) ==
    {IF IsNodeState(N[n].upstream[i]._state) THEN N[n].upstream[i]._state.ref
     ELSE N[n].upstream[i]._param_name.ref : i \in 1..Len(N[n].upstream)}

RECURSIVE Ancestors(_, _)
\* the nodes of S and every node transitively upstream of them
Ancestors(N, S) ==
    LET T == S \cup UNION {Feeders(N, m) : m \in S}
    IN IF T = S THEN S ELSE Ancestors(N, T)

RECURSIVE Descendants(_, _)
\* the nodes of S and every node transitively downstream of them
Descendants(N, S) ==
    LET T == S \cup UNION {{N[m].downstream[i] : i \in 1..Len(N[m].downstream)} : m \in S}
    IN IF T = S THEN S ELSE Descendants(N, T)

\* every node made dirty, its cache dropped: nothing is remembered
AllDirty(N) == [m \in DOMAIN N |-> [N[m] EXCEPT !._dirty = TRUE, !._cache = NoneVal]]

\* node n computed from scratch from the stored args/kwargs of n and of all
\* that is upstream of it
Recomputed(N, n) == NodeState_eval_cached(AllDirty(N), n, {})

\* two evaluations end alike: the same value returned or the same error raised
SameOutcome(r, f) == r.err = f.err /\ r.val = f.val

\* C1 -- no stale reads: in every state the context reaches through set,
\* update, group set, direct calls and cached reads, a cached read of any
\* node returns exactly what computing that node from scratch from the
\* stored args/kwargs of the node and of its transitive upstream returns.
C1_NoStaleReads ==
    \A n \in DOMAIN context._nodes :
        SameOutcome(NodeState_eval_cached(context._nodes, n, {}),
                    Recomputed(context._nodes, n))

\* a read of d in the diamond, answered after a's keyword was set anew
C1_Witness ==
    /\ <<"e">> \in DOMAIN context._nodes
    /\ out.op = "val" /\ out.node = <<"d">> /\ out.err = ""
    /\ context._nodes[<<"a">>]._kwargs = ("y" :> Lit(MaxVal))
    /\ ~context._nodes[<<"d">>]._dirty

\* the step touches neither n nor anything upstream of n: a read, a direct
\* call, a set/update of another node, a group set on a group that holds
\* none of them
Untouched(n) ==
    \/ out'.op \in {"val", "call"}
    \/ /\ out'.op \in {"set", "update"}
       /\ out'.node \notin Ancestors(context._nodes, {n})
    \/ /\ out'.op = "group.set"
       /\ \A m \in Ancestors(context._nodes, {n}) : ~Under(out'.node, m)

\* C2 -- memoization: a cached read that returns leaves the node clean with
\* the returned value as its cache; a step that touches neither the node nor
\* its transitive upstream keeps it clean with that cache; and a cached read
\* of a clean node invokes no callable and returns the cached result.
C2_Memoization ==
    [][\A n \in DOMAIN context._nodes :
         /\ (out'.op = "val" /\ out'.node = n /\ out'.err = "")
               => /\ ~context'._nodes[n]._dirty
                  /\ context'._nodes[n]._cache = out'.val
         /\ (~context._nodes[n]._dirty /\ Untouched(n))
               => /\ ~context'._nodes[n]._dirty
                  /\ context'._nodes[n]._cache = context._nodes[n]._cache
                  /\ (out'.op = "val" /\ out'.node = n)
                        => /\ out'.calls = << >>
                           /\ out'.err = ""
                           /\ out'.val = context._nodes[n]._cache]_vars

\* a read of the chain's last node that ran no callable: it was cached
C2_Witness ==
    /\ <<"kw">> \in DOMAIN context._nodes
    /\ out.op = "val" /\ out.node = <<"b">> /\ out.err = ""
    /\ out.calls = << >>
    /\ out.val = context._nodes[<<"b">>]._cache

\* no entry of l occurs twice
NoDuplicates(l) == \A i, j \in 1..Len(l) : l[i] = l[j] => i = j

\* C3 -- invalidation propagation: right after set or update on a node, the
\* node and everything transitively downstream of it is dirty with no cache;
\* a cached read that returns for a dirty node invokes that node's callable
\* and returns the value computed from the stored inputs; and a read invokes
\* only dirty nodes, each once, and leaves them clean.
C3_InvalidationPropagation ==
    [][/\ out'.op \in {"set", "update"}
            => \A m \in Descendants(context'._nodes, {out'.node}) :
                  /\ context'._nodes[m]._dirty
                  /\ context'._nodes[m]._cache = NoneVal
       /\ out'.op = "val"
            => /\ NoDuplicates(out'.calls)
               /\ \A i \in 1..Len(out'.calls) :
                     /\ context._nodes[out'.calls[i]]._dirty
                     /\ ~context'._nodes[out'.calls[i]]._dirty
               /\ (context._nodes[out'.node]._dirty /\ out'.err = "")
                     => /\ InList(out'.node, out'.calls)
                        /\ out'.val = Recomputed(context'._nodes, out'.node).val]_vars

\* set on b in the diamond while a and e hold their caches: b and d are dirty
C3_Witness ==
    /\ <<"e">> \in DOMAIN context._nodes
    /\ out.op = "set" /\ out.node = <<"b">>
    /\ ~context._nodes[<<"a">>]._dirty /\ ~context._nodes[<<"e">>]._dirty
    /\ context._nodes[<<"b">>]._dirty /\ context._nodes[<<"d">>]._dirty

\* C4 -- a direct call changes no stored args/kwargs, and neither the dirty
\* flag nor the cache of the node called; the only nodes it changes are dirty
\* nodes upstream of it, which it leaves clean with their results cached.
C4_DirectCallFrame ==
    [][out'.op = "call"
         => /\ context'._nodes[out'.node] = context._nodes[out'.node]
            /\ \A m \in DOMAIN context._nodes :
                  context'._nodes[m] # context._nodes[m]
                     => /\ m \in Ancestors(context._nodes, {out'.node})
                        /\ context._nodes[m]._dirty
                        /\ context'._nodes[m] =
                              [context._nodes[m] EXCEPT
                                 !._dirty = FALSE,
                                 !._cache = Recomputed(context._nodes, m).val]]_vars

\* a direct call of a clean node that returned something other than its cache
C4_Witness ==
    /\ out.op = "call" /\ out.err = ""
    /\ ~context._nodes[out.node]._dirty
    /\ out.val # context._nodes[out.node]._cache

\* whether the node's signature takes the keyword k
Accepts(state, k) ==
    state._args_spec.keywords # None \/ NodeArgSpec_contains(state._args_spec, k)

RECURSIVE Addressed(_, _)
\* the params entry that the keyword mapping v holds for the node reached by
\* the names `rest`, through nested group(...) values: None or the entry
Addressed(v, rest) ==
    IF rest = << >> THEN NoneV
    ELSE IF Head(rest) \notin DOMAIN v THEN NoneV
    ELSE IF IsParams(v[Head(rest)])
    THEN IF Len(rest) = 1 THEN Some(v[Head(rest)]) ELSE NoneV
    ELSE IF IsDict(v[Head(rest)]) THEN Addressed(v[Head(rest)].group, Tail(rest))
    ELSE NoneV

\* the global entries of a group set on the group at P
GlobalsOf(P, kwargs) == [k \in DOMAIN kwargs \ GroupKeys(context, P) |-> kwargs[k]]

\* the entry of the last group set that addresses node m
SpecificFor(m) == Addressed(out.kwargs, SubSeq(m, Len(out.node) + 1, Len(m)))

\* C5 -- parameter precedence: after a group set mixing global and specific
\* entries, a node addressed by a specific params entry stores, for every
\* key bound by both that entry and a global entry, the specific value when
\* its signature takes the key and nothing otherwise; and no node stores a
\* global key that its signature neither declares nor collects.
C5_ParameterPrecedence ==
    (out.op = "group.set" /\ out.err = "")
    => \A m \in DOMAIN context._nodes : Under(out.node, m)
         => /\ SpecificFor(m) # NoneV
                 => \A j \in DOMAIN SpecificFor(m)[1].kwargs
                               \cap DOMAIN GlobalsOf(out.node, out.kwargs) :
                       IF Accepts(context._nodes[m], j)
                       THEN /\ j \in DOMAIN context._nodes[m]._kwargs
                            /\ context._nodes[m]._kwargs[j] = SpecificFor(m)[1].kwargs[j]
                       ELSE j \notin DOMAIN context._nodes[m]._kwargs
            /\ \A j \in DOMAIN GlobalsOf(out.node, out.kwargs) :
                  ~Accepts(context._nodes[m], j)
                     => j \notin DOMAIN context._nodes[m]._kwargs

\* group set with fudge bound globally and by the entry for b: b holds the
\* specific value
C5_Witness ==
    /\ out.op = "group.set" /\ out.err = "" /\ out.node = << >>
    /\ DOMAIN out.kwargs = {"b", "fudge"}
    /\ out.kwargs["b"] = _params(<< >>, "fudge" :> Lit(1))
    /\ out.kwargs["fudge"] = Lit(MaxVal)
    /\ context._nodes[<<"b">>]._kwargs = ("fudge" :> Lit(1))

C11_GroupScoping ==
    [][out'.op = "group.set"
         => \A m \in DOMAIN context._nodes :
               /\ ~Under(out'.node, m)
                     => /\ context'._nodes[m]._args = context._nodes[m]._args
                        /\ context'._nodes[m]._kwargs = context._nodes[m]._kwargs
               /\ m \notin Descendants(context._nodes,
                                       {q \in DOMAIN context._nodes : Under(out'.node, q)})
                     => context'._nodes[m] = context._nodes[m]]_vars

\* group set of y on the group sub, whose node a feeds b in the root: a took
\* y, b kept its kwargs and is dirty
C11_Witness ==
    /\ <<"sub", "a">> \in DOMAIN context._nodes
    /\ out.op = "group.set" /\ out.node = <<"sub">> /\ out.err = ""
    /\ context._nodes[<<"sub", "a">>]._kwargs = ("y" :> Lit(MaxVal))
    /\ context._nodes[<<"b">>]._kwargs = ("fudge" :> Lit(1))
    /\ context._nodes[<<"b">>]._dirty

\* C13 -- failure during evaluation: when a cached read raises, the node
\* read is left dirty with no cache, as is every dirty node whose callable
\* did not run to completion; the upstream nodes whose evaluation completed
\* are clean and hold their results; nothing else changes; and a cached read
\* of a dirty node never returns without invoking the node's callable, so
\* the read after a failure evaluates again.
C13_FailureDuringEvaluation ==
    [][out'.op = "val"
         => /\ out'.err # ""
                 => /\ context'._nodes[out'.node]._dirty
                    /\ context'._nodes[out'.node]._cache = NoneVal
                    /\ \A m \in DOMAIN context._nodes :
                          IF InList(m, out'.calls)
                          THEN /\ ~context'._nodes[m]._dirty
                               /\ context'._nodes[m]._cache =
                                     Recomputed(context._nodes, m).val
                          ELSE /\ context'._nodes[m] = context._nodes[m]
                               /\ context._nodes[m]._dirty
                                     => context'._nodes[m]._cache = NoneVal
            /\ context._nodes[out'.node]._dirty
                 => \/ out'.err # ""
                    \/ InList(out'.node, out'.calls)]_vars

\* a read of b that failed in r, the callable of r raising: a ran and is
\* clean with its result, r and b are dirty with no cache
C13_Witness ==
    /\ <<"r">> \in DOMAIN context._nodes
    /\ out.op = "val" /\ out.node = <<"b">> /\ out.err = "ValueError"
    /\ out.calls = << <<"a">> >>
    /\ ~context._nodes[<<"a">>]._dirty /\ context._nodes[<<"a">>]._cache # NoneVal
    /\ context._nodes[<<"r">>]._dirty /\ context._nodes[<<"r">>]._cache = NoneVal
    /\ context._nodes[<<"b">>]._dirty /\ context._nodes[<<"b">>]._cache = NoneVal

\* the keywords that the parameter bundles cached upstream of n bind
BundleKeys(N, n) ==
    UNION {DOMAIN N[N[n].upstream[i]._state.ref]._cache.kwargs :
              i \in {j \in 1..Len(N[n].upstream) :
                        /\ ~N[n].upstream[j].wrapper
                        /\ IsParams(N[N[n].upstream[j]._state.ref]._cache)}}

\* the keyword arguments the callable was invoked with, read off its result
Received(val) == IF IsParams(val) THEN val.args[1].k ELSE val.k

\* the node's own keyword arguments in the evaluation the step made: those
\* of the caller for a direct call, the stored ones for a cached read
OwnKwargs == IF out'.op = "call" THEN out'.kwargs ELSE context._nodes[out'.node]._kwargs

\* the step evaluated the node out'.node, and its callable returned
Evaluated ==
    /\ out'.op \in {"val", "call"}
    /\ out'.err = ""
    /\ InList(out'.node, out'.calls)

\* C18 -- keyword precedence in argument assembly: when a node is evaluated,
\* by a direct call with the caller's kwargs or by a cached read with the
\* stored kwargs, and an upstream parameter bundle binds a keyword that the
\* node's own kwargs bind as well, the callable receives the node's own
\* value for that keyword.
C18_KeywordPrecedence ==
    [][Evaluated
         => \A k \in DOMAIN OwnKwargs \cap BundleKeys(context'._nodes, out'.node) :
               Received(out'.val)[k] = OwnKwargs[k]]_vars

\* what the code does instead: the keyword of the upstream bundle replaces
\* the node's own
UpstreamOverOwn ==
    [][Evaluated
         => \A i \in 1..Len(context._nodes[out'.node].upstream) :
               LET peer == context._nodes[out'.node].upstream[i] IN
               (~peer.wrapper /\ IsParams(context'._nodes[peer._state.ref]._cache))
                  => \A k \in DOMAIN context'._nodes[peer._state.ref]._cache.kwargs :
                        Received(out'.val)[k] =
                           context'._nodes[peer._state.ref]._cache.kwargs[k]]_vars

\* the blueprint's edges into a parameter of node n: EdgeDef(source, param)
ParamEdgesInto(n) ==
    {graphs["g"]._upstream[n][i] :
        i \in {j \in 1..Len(graphs["g"]._upstream[n]) :
                  graphs["g"]._upstream[n][j].param # None}}

\* the positional arguments the callable was invoked with, read off its result
ReceivedArgs(val) == IF IsParams(val) THEN val.args[1].a ELSE val.a

\* the errors the node's own call can end with: none, a call that does not
\* bind, the callable raising
OwnCallErrors == {"", "TypeError", "ValueError"}

\* C19 -- parameter-targeted edges: in an instance of a blueprint with an
\* edge from node s into parameter p of node t, evaluating t, by a cached
\* read or a direct call, passes the cached result of s to the callable of t
\* as the keyword argument p and never as a positional argument: with s
\* evaluable, the evaluation gets as far as the call of t, and a call that
\* returns has received p bound to the cache of s.
C19_ParamTargetedEdges ==
    [][out'.op \in {"val", "call"}
         => \A e \in ParamEdgesInto(out'.node) :
               Recomputed(context._nodes, e.node).err = ""
                  => /\ out'.err \in OwnCallErrors
                     /\ Evaluated
                          => /\ e.param \in DOMAIN Received(out'.val)
                             /\ Received(out'.val)[e.param] =
                                   context'._nodes[e.node]._cache
                             /\ ~InList(context'._nodes[e.node]._cache,
                                        ReceivedArgs(out'.val))]_vars

\* what the code does instead: with the wrapper's arguments swapped the
\* evaluation of the target never returns, and it ends with AttributeError
\* whenever the target is dirty or called directly
ParamEdgeNeverEvaluates ==
    [][(out'.op \in {"val", "call"} /\ ParamEdgesInto(out'.node) # {})
         => out'.err = "AttributeError: no attribute _eval_cached"]_vars

\* the keys of the last group set that name a child sub-group and hold a
\* nested mapping whose keys name child nodes of that sub-group (with params
\* entries) or nothing in it; `globals` tells whether keys that name nothing
\* are admitted
NestedFor(globals) ==
    {s \in DOMAIN out.kwargs :
        /\ IsDict(out.kwargs[s])
        /\ Append(out.node, s) \in context._groups
        /\ \A k \in DOMAIN out.kwargs[s].group :
              IF k \in GroupKeys(context, Append(out.node, s))
              THEN /\ Append(Append(out.node, s), k) \in DOMAIN context._nodes
                   /\ IsParams(out.kwargs[s].group[k])
              ELSE globals}

\* what C20 asks of the state a group set leaves, for the nested mappings
\* under the keys S
NestedApplied(S) ==
    \A s \in S :
       LET G == Append(out.node, s)
           nested == out.kwargs[s].group
           inner == [k \in DOMAIN nested \ GroupKeys(context, G) |-> nested[k]]
           outer == GlobalsOf(out.node, out.kwargs)
       IN /\ out.err = ""
          /\ \A m \in DOMAIN context._nodes : Under(G, m)
                => LET own == IF Len(m) = Len(G) + 1 /\ m[Len(m)] \in DOMAIN nested
                              THEN nested[m[Len(m)]].kwargs ELSE EmptyDict
                   IN \A j \in DOMAIN own \cup DOMAIN inner \cup DOMAIN outer :
                         Accepts(context._nodes[m], j)
                            => /\ j \in DOMAIN context._nodes[m]._kwargs
                               /\ context._nodes[m]._kwargs[j] =
                                     (IF j \in DOMAIN own THEN own[j]
                                      ELSE IF j \in DOMAIN inner THEN inner[j]
                                      ELSE outer[j])

\* C20 -- nested Group handling: when a specific entry of a group set names
\* a child sub-group and its value is a nested keyword mapping, the mapping
\* is split against the children of the sub-group: the group set returns,
\* keys naming a child are applied as specific entries, keys naming no child
\* are stored as global parameters by every accepting leaf node of the
\* sub-group's subtree, and the outer global entries are applied as well.
C20_NestedGroup ==
    out.op = "group.set" => NestedApplied(NestedFor(TRUE))

\* C20 for the nested mappings in which every key names a child node
NestedSpecificOnly ==
    out.op = "group.set" => NestedApplied(NestedFor(FALSE))

\* C21 -- global parameters reach input nodes only: on a group set, a node
\* of the group's subtree that has an upstream edge and is not addressed by
\* a specific entry keeps its stored keyword values, and a node stores a
\* global keyword only when its signature takes it.
C21_GlobalInputNodesOnly ==
    [][(out'.op = "group.set" /\ out'.err = "")
         => \A m \in DOMAIN context._nodes :
               /\ ( /\ Under(out'.node, m)
                    /\ context._nodes[m].upstream # << >>
                    /\ Addressed(out'.kwargs,
                                 SubSeq(m, Len(out'.node) + 1, Len(m))) = NoneV )
                     => context'._nodes[m]._kwargs = context._nodes[m]._kwargs
               /\ \A j \in DOMAIN out'.kwargs \ GroupKeys(context, out'.node) :
                     ~Accepts(context._nodes[m], j)
                        => (j \in DOMAIN context'._nodes[m]._kwargs
                              <=> j \in DOMAIN context._nodes[m]._kwargs)]_vars

\* the part of C21 the code keeps: a global keyword is stored only by nodes
\* whose signature takes it, and nodes outside the subtree keep their kwargs
GlobalOnlyWhenAccepted ==
    [][(out'.op = "group.set" /\ out'.err = "")
         => \A m \in DOMAIN context._nodes :
               \A j \in DOMAIN out'.kwargs \ GroupKeys(context, out'.node) :
                  ~Accepts(context._nodes[m], j)
                     => (j \in DOMAIN context'._nodes[m]._kwargs
                           <=> j \in DOMAIN context._nodes[m]._kwargs)]_vars

RECURSIVE FromUpstream(_, _, _)
\* the positional arguments that the results cached in N contribute for the
\* blueprint's edges i.. of the list `edges`, in the order of the list: a
\* params bundle its positional items, any other result itself
FromUpstream(N, edges, i) ==
    IF i > Len(edges) THEN << >>
    ELSE (IF IsParams(N[edges[i].node]._cache)
          THEN N[edges[i].node]._cache.args
          ELSE <<N[edges[i].node]._cache>>) \o FromUpstream(N, edges, i + 1)

\* the node's own positional arguments in the evaluation the step made:
\* those of the caller for a direct call, the stored ones for a cached read
OwnArgs == IF out'.op = "call" THEN out'.args ELSE context._nodes[out'.node]._args

\* C22 -- positional argument order: the callable of an evaluated node
\* receives, in this order, the results of its upstream peers in the order
\* in which the blueprint's edges into the node were added (the upstream
\* list of the blueprint), a params bundle contributing its positional items
\* in place, and then the node's own stored or caller-supplied args.
C22_PositionalOrder ==
    [][Evaluated
         => ReceivedArgs(out'.val) =
               FromUpstream(context'._nodes, graphs["g"]._upstream[out'.node], 1)
                  \o OwnArgs]_vars

\* a read of d on the diamond, wired a -> b -> d before a -> e -> d: d got
\* the result of b, then the result of e
C22_Witness ==
    /\ <<"e">> \in DOMAIN context._nodes
    /\ out.op = "val" /\ out.node = <<"d">> /\ out.err = ""
    /\ InList(<<"d">>, out.calls)
    /\ graphs["g"]._upstream[<<"d">>] = <<EdgeDef(<<"b">>, None), EdgeDef(<<"e">>, None)>>
    /\ out.val.a = <<context._nodes[<<"b">>]._cache, context._nodes[<<"e">>]._cache>>
    /\ context._nodes[<<"b">>]._cache # context._nodes[<<"e">>]._cache

\* a read of b that passed the result of its upstream peer and then the
\* stored positional argument to the callable
OwnArgsLast ==
    /\ out.op = "val" /\ out.err = "" /\ InList(out.node, out.calls)
    /\ context._nodes[out.node].upstream # << >>
    /\ context._nodes[out.node]._args # << >>
    /\ Len(out.val.a) = 2

\* a read of d fed by the bundle of c: the bundle's positional item is the
\* positional argument, not the bundle
BundleInPlace ==
    /\ out.op = "val" /\ out.node = <<"sub", "sub", "d">> /\ out.err = ""
    /\ InList(out.node, out.calls)
    /\ IsParams(context._nodes[<<"sub", "c">>]._cache)
    /\ out.val.a = context._nodes[<<"sub", "c">>]._cache.args

\* the entries of kwargs that the node's signature takes
Accepted(state, kwargs) ==
    [k \in {j \in DOMAIN kwargs : Accepts(state, j)} |-> kwargs[k]]

\* C24 -- update merges, set replaces: node.update(**kwargs) leaves the
\* stored positional args as they are, keeps every stored keyword (with its
\* value unless the call gives an accepted value for it), adds nothing but
\* the accepted keywords of the call, and leaves the node dirty with no
\* cache; node.set(*args, **kwargs) leaves the node with exactly the args
\* and the accepted keywords of the call, whatever was stored before.
C24_UpdateMerges ==
    [][LET s == context._nodes[out'.node]
           s2 == context'._nodes[out'.node]
       IN /\ out'.op = "update"
               => /\ s2._args = s._args
                  /\ DOMAIN s2._kwargs =
                        DOMAIN s._kwargs \cup DOMAIN Accepted(s, out'.kwargs)
                  /\ \A k \in DOMAIN s2._kwargs :
                        s2._kwargs[k] = IF k \in DOMAIN Accepted(s, out'.kwargs)
                                        THEN out'.kwargs[k] ELSE s._kwargs[k]
                  /\ s2._dirty /\ s2._cache = NoneVal
          /\ out'.op = "set"
               => /\ s2._args = out'.args
                  /\ s2._kwargs = Accepted(s, out'.kwargs)
                  /\ s2._dirty /\ s2._cache = NoneVal]_vars

\* an update of y on kw, which stored fudge before: it stores both
C24_Witness ==
    /\ out.op = "update" /\ out.node = <<"kw">>
    /\ out.kwargs = ("y" :> Lit(MaxVal))
    /\ context._nodes[<<"kw">>]._kwargs = ("fudge" :> Lit(MaxVal)) @@ ("y" :> Lit(MaxVal))

\* a set with no argument on a node that stored args and kwargs: both empty
SetReplaces ==
    /\ out.op = "set" /\ out.args = << >> /\ out.kwargs = EmptyDict
    /\ graphs["g"]._items[out.node].args # << >>
    /\ context._nodes[out.node]._args = << >>
    /\ context._nodes[out.node]._kwargs = EmptyDict

RECURSIVE SumDownstream(_, _, _)
\* the number of downstream peers of the nodes marked[i..]
SumDownstream(N, marked, i) ==
    IF i > Len(marked) THEN 0
    ELSE Len(N[marked[i]].downstream) + SumDownstream(N, marked, i + 1)

\* C25 -- bounded invalidation: an invalidation event started at any node in
\* any state ends; it marks no node twice, marks exactly the nodes that were
\* clean and are dirty afterwards, and traverses the downstream peers of a
\* node once, when it marks it: the calls it makes are the first one and one
\* per downstream peer of each marked node.  This holds where paths converge
\* on a node and where the wiring has a cycle.
C25_BoundedInvalidation ==
    \A n \in DOMAIN context._nodes :
       LET L == InvalidationEvent(context._nodes, n) IN
       /\ NoDuplicates(L.marked)
       /\ {L.marked[i] : i \in 1..Len(L.marked)}
             = {m \in DOMAIN context._nodes : ~context._nodes[m]._dirty /\ L.N[m]._dirty}
       /\ L.visits = 1 + SumDownstream(context._nodes, L.marked, 1)
       /\ L.N = _invalidate(context._nodes, n)

\* the diamond with every node clean: the event started at a marks the four
\* nodes and reaches d a second time, from e, without marking it again
C25_Witness ==
    /\ <<"e">> \in DOMAIN context._nodes
    /\ \A m \in DOMAIN context._nodes : ~context._nodes[m]._dirty
    /\ InvalidationEvent(context._nodes, <<"a">>).marked
          = << <<"a">>, <<"b">>, <<"d">>, <<"e">> >>
    /\ InvalidationEvent(context._nodes, <<"a">>).visits = 5

\* the wiring with the cycle b -> d -> b, a clean: the event started at a
\* marks a and ends at b
InvalidationEndsOnCycle ==
    /\ <<"d">> \in DOMAIN graphs["g"]._downstream
    /\ graphs["g"]._downstream[<<"d">>] = <<EdgeDef(<<"b">>, None)>>
    /\ ~context._nodes[<<"a">>]._dirty
    /\ InvalidationEvent(context._nodes, <<"a">>).marked = << <<"a">> >>
    /\ InvalidationEvent(context._nodes, <<"a">>).visits = 2

\* C26 -- dirty closure: in every state of an instance, after a callable
\* raised as well, a dirty node holds no cached value and each of its
\* downstream peers is dirty; a clean node has only clean nodes in its
\* transitive upstream.
C26_DirtyClosure ==
    \A n \in DOMAIN context._nodes :
       /\ context._nodes[n]._dirty
             => /\ context._nodes[n]._cache = NoneVal
                /\ \A i \in 1..Len(context._nodes[n].downstream) :
                      context._nodes[context._nodes[n].downstream[i]]._dirty
       /\ ~context._nodes[n]._dirty
             => \A m \in Ancestors(context._nodes, {n}) : ~context._nodes[m]._dirty

\* after a read of b that failed in r: a is clean with its result, and the
\* dirty r has the dirty b downstream and no cache
C26_Witness ==
    /\ <<"r">> \in DOMAIN context._nodes
    /\ out.op = "val" /\ out.err = "ValueError"
    /\ ~context._nodes[<<"a">>]._dirty
    /\ context._nodes[<<"r">>]._dirty /\ context._nodes[<<"r">>]._cache = NoneVal
    /\ context._nodes[<<"b">>]._dirty

\* an update of b on the diamond, all of whose nodes were read before: b and
\* d are dirty with no cache, a and e clean with theirs
DirtyBelowOnly ==
    /\ <<"e">> \in DOMAIN context._nodes
    /\ out.op = "update" /\ out.node = <<"b">>
    /\ context._nodes[<<"b">>]._dirty /\ context._nodes[<<"d">>]._dirty
    /\ ~context._nodes[<<"a">>]._dirty /\ ~context._nodes[<<"e">>]._dirty
    /\ context._nodes[<<"e">>]._cache # NoneVal

\* C12 -- instance isolation: the state of an instance, each node's
\* callable, stored args and kwargs, peers, dirty flag and cache, is changed
\* only by the operations invoked on that instance: a set, update or read on
\* the other instance of the same blueprint, and an override, pipe or union
\* on the blueprint, leave it as it was, and every read on the instance
\* returns what it would have returned without that step.
C12_InstanceIsolation ==
    [][\A i \in InstanceIds :
          (gout' # gout \/ out'.inst # i)
             => /\ Load(instances', heap', i) = Load(instances, heap, i)
                /\ \A n \in DOMAIN instances[i] :
                      SameOutcome(
                         NodeState_eval_cached(Load(instances', heap', i), n, {}),
                         NodeState_eval_cached(Load(instances, heap, i), n, {}))]_vars

\* a read of a on instance one that returned the value of y=1, after y was
\* updated on instance two and the blueprint's a was overridden by b
C12_Witness ==
    /\ "one" \in DOMAIN instances
    /\ out.op = "val" /\ out.inst = "one" /\ out.node = <<"a">> /\ out.err = ""
    /\ out.val.k = ("y" :> Lit(1))
    /\ heap[instances["two"][<<"a">>]._kwargs] = ("y" :> Lit(MaxVal))
    /\ graphs["g"]._items[<<"a">>].func = "b"
    /\ instances["one"][<<"a">>].func = "a"

(***************************************************************************)
(* Properties of the blueprint machine.                                    *)
(***************************************************************************)
\* the name _store_node files a callable or partial under: the one given, or
\* the one it deduces
StoredName(item, name) ==
    IF name # None THEN name
    ELSE IF item.t = "partial" THEN func_name(item.func.func)
    ELSE func_name(item.func)

\* the definition a callable or partial brings: callable, args and kwargs
Brought(item) ==
    IF item.t = "partial"
    THEN [func |-> item.func.func, args |-> item.args,
          kwargs |-> IF item.keywords = NoneV THEN EmptyDict ELSE item.keywords[1]]
    ELSE [func |-> item.func, args |-> << >>, kwargs |-> EmptyDict]

\* the store step `gout'` tells of was aimed at a node definition at `path`
Overrides(path) ==
    /\ gout'.op = "store"
    /\ gout'.item.t \in {"callable", "partial"}
    /\ path = Append(gout'.prefix, StoredName(gout'.item, gout'.name))
    /\ path \in DOMAIN graphs[gout'.g]._items
    /\ graphs[gout'.g]._items[path].kind = "NodeDef"

\* C14 -- self-merge: a union of a blueprint into itself, flat or under a
\* name, fails with the error "Cannot add graph into itself" and leaves the
\* blueprint as it was.
C14_SelfMerge ==
    [][(gout'.op = "union" /\ gout'.prefix = << >> /\ gout'.item.id = gout'.g)
         => /\ gout'.err = "ValueError: Cannot add graph into itself"
            /\ graphs' = graphs]_vars

\* g.union(nested=g) was tried on a graph that holds nodes and an edge
C14_Witness ==
    /\ gout.op = "union" /\ gout.prefix = << >> /\ gout.item.id = gout.g
    /\ gout.name = "nested"
    /\ gout.err = "ValueError: Cannot add graph into itself"
    /\ \E p \in DOMAIN graphs[gout.g]._downstream : graphs[gout.g]._downstream[p] # << >>

\* C15 -- arity: every pipelining entry point, the module-level pipe
\* constructor and the pipe method of a graph, called with fewer than two
\* items fails with the arity error.
C15_PipeArity ==
    [][(gout'.op \in {"pipe", "module.pipe"} /\ Len(gout'.nodes) < 2)
         => gout'.err = "ValueError: at least two nodes"]_vars

\* the part of C15 that the code keeps: the pipe method of a graph or
\* sub-graph called with fewer than two items fails with the arity error and
\* changes nothing
PipeMethodArity ==
    [][(gout'.op = "pipe" /\ Len(gout'.nodes) < 2)
         => /\ gout'.err = "ValueError: at least two nodes"
            /\ graphs' = graphs]_vars

\* the path a store files its node under, << >> when no name is at hand
StorePath(prefix, item, name) ==
    CASE item.t \in {"callable", "partial"} ->
            IF StoredName(item, name) \in {None, "<lambda>"} THEN << >>
            ELSE Append(prefix, StoredName(item, name))
      [] item.t = "NodeDef" -> Append(prefix, item.def.name)
      [] OTHER -> << >>

\* the step is a store that files a node under a name that holds a sub-graph
NodeOverSubGraph ==
    /\ gout'.op = "store"
    /\ LET p == StorePath(gout'.prefix, gout'.item, gout'.name) IN
       /\ p \in DOMAIN graphs[gout'.g]._items
       /\ graphs[gout'.g]._items[p].kind = "SubGraph"

\* the step is a merge of another root graph that brings a sub-graph to a
\* name that holds a node, or a node to a name that holds a sub-graph: the
\* name the merge is filed under, or any name of the source, at any depth
MergeOverOtherKind ==
    /\ gout'.op = "union" /\ gout'.item.id # gout'.g
    /\ LET B == graphs[gout'.g]
           src == graphs[gout'.item.id]
           rp == IF gout'.name = None THEN gout'.prefix
                 ELSE Append(gout'.prefix, gout'.name)
       IN \/ /\ gout'.name # None
             /\ rp \in DOMAIN B._items
             /\ B._items[rp].kind = "NodeDef"
          \/ \E q \in DOMAIN src._items :
                /\ rp \o q \in DOMAIN B._items
                /\ B._items[rp \o q].kind # src._items[q].kind

\* the errors raised for a name reused across kinds: _store_node_def's
\* "Attempted to override sub-graph ... with node" and _store_graph's
\* "Graph already contains node by name ..."
StructureConflictErrors ==
    {"ValueError: override sub-graph with node", "ValueError: Graph already contains node"}

\* every item below the root lies in a sub-graph: no name holds a node and
\* a sub-graph at once
KindExclusive(B) ==
    \A p \in DOMAIN B._items :
        /\ B._items[p].kind \in {"NodeDef", "SubGraph"}
        /\ Len(p) > 1 => /\ SubSeq(p, 1, Len(p) - 1) \in DOMAIN B._items
                         /\ B._items[SubSeq(p, 1, Len(p) - 1)].kind = "SubGraph"

\* C16 -- kind exclusivity of names: in every reachable blueprint state a
\* name holds either a node definition or a sub-graph, and every insertion
\* or merge, flat or named, at any depth, that would put a node where a
\* sub-graph is stored or a sub-graph where a node is stored fails with a
\* structure-conflict error.
C16_KindExclusivity ==
    [][/\ \A id \in GraphIds : KindExclusive(graphs'[id])
       /\ (NodeOverSubGraph \/ MergeOverOtherKind)
             => gout'.err \in StructureConflictErrors]_vars

\* C16 with any error at all taken for the failure
KindConflictFails ==
    [][(NodeOverSubGraph \/ MergeOverOtherKind) => gout'.err # ""]_vars

\* the conflicts the code does detect: a node stored over a sub-graph, and a
\* merge filed under a name that holds a node
KindConflictDetected ==
    [][/\ \A id \in GraphIds : KindExclusive(graphs'[id])
       /\ \/ NodeOverSubGraph
          \/ /\ gout'.op = "union" /\ gout'.item.id # gout'.g /\ gout'.name # None
             /\ Append(gout'.prefix, gout'.name) \in DOMAIN graphs[gout'.g]._items
             /\ graphs[gout'.g]._items[Append(gout'.prefix, gout'.name)].kind = "NodeDef"
          => gout'.err \in StructureConflictErrors]_vars

\* the callable a node-worthy item carries
FuncOf(item) ==
    CASE item.t = "callable" -> item.func
      [] item.t = "NodeDef" -> item.def.func
      [] OTHER -> item.func.func

\* the name the item itself declares: the function's name, the name given
\* to node(func, name), the name of the node definition; None when it has none
DeclaredName(item) ==
    LET own(f) == IF func_name(f) = "<lambda>" THEN None ELSE func_name(f) IN
    CASE item.t = "callable" -> own(item.func)
      [] item.t = "NodeDef" -> item.def.name
      [] item.t = "NamedFunc" -> IF item.name # None THEN item.name
                                 ELSE own(item.func.func)
      [] OTHER -> own(item.func.func)

\* the errors raised when no name can be deduced
NamingErrors == {"ValueError: anonymous lambda", "ValueError: can't deduce name"}

\* the graph holds at path p a node definition with the callable of the item
HoldsNode(B, p, item) ==
    /\ p \in DOMAIN B._items
    /\ B._items[p].kind = "NodeDef"
    /\ B._items[p].func = FuncOf(item)

\* what C17 asks of a store step of the given items
NameResolved(kinds) ==
    (gout'.op = "store" /\ gout'.item.t \in kinds)
    => LET item == gout'.item
           B == graphs'[gout'.g]
       IN /\ gout'.name # None
               => /\ gout'.err \notin NamingErrors
                  /\ gout'.err = ""
                        => HoldsNode(B, Append(gout'.prefix, gout'.name), item)
          /\ (gout'.name = None /\ DeclaredName(item) # None)
               => /\ gout'.err \notin NamingErrors
                  /\ gout'.err = ""
                        => HoldsNode(B, Append(gout'.prefix, DeclaredName(item)), item)
          /\ (gout'.name = None /\ DeclaredName(item) = None)
               => /\ gout'.err \in NamingErrors
                  /\ graphs' = graphs

\* C17 -- name resolution on insertion: a node-worthy item stored with an
\* explicit name is held, as a node definition, under that explicit name;
\* stored with no explicit name it is held under the name it declares; and
\* when no name can be derived the store fails with a naming error.
C17_NameResolution ==
    [][NameResolved({"callable", "partial", "NamedFunc", "NodeDef"})]_vars

\* C17 for the items that are a function, a callable object or a partial
NameResolutionOfCallables ==
    [][NameResolved({"callable", "partial"})]_vars

\* C7 -- identity preservation under override: storing a callable or partial
\* under a name that holds a node definition succeeds, keeps every item of
\* the graph but that one, keeps both edge maps as they were (every edge, in
\* order, with its multiplicity), and changes of the node definition only
\* the callable and the default args/kwargs; path, owner, prefix and name
\* stay.
C7_IdentityPreserved ==
    [][\A path \in DOMAIN graphs[gout'.g]._items :
         Overrides(path)
            => /\ gout'.err = ""
               /\ graphs'[gout'.g]._downstream = graphs[gout'.g]._downstream
               /\ graphs'[gout'.g]._upstream = graphs[gout'.g]._upstream
               /\ graphs'[gout'.g]._items =
                     [graphs[gout'.g]._items EXCEPT
                        ![path] = [@ EXCEPT !.func = Brought(gout'.item).func,
                                            !.args = Brought(gout'.item).args,
                                            !.kwargs = Brought(gout'.item).kwargs]]]_vars

\* partial(b, 2) stored under "a" in a graph where a is piped: a keeps its
\* edge and runs b
C7_Witness ==
    /\ gout.op = "store" /\ gout.err = "" /\ gout.prefix = << >>
    /\ gout.name = "a" /\ gout.item.t = "partial"
    /\ graphs[gout.g]._items[<<"a">>].func = "b"
    /\ graphs[gout.g]._items[<<"a">>].args = <<Lit(2)>>
    /\ graphs[gout.g]._downstream[<<"a">>] = <<EdgeDef(<<"b">>, None)>>

\* C8 -- merge idempotency: in the state a union leaves, the same union (same
\* source, same name or flat, same destination) leaves the destination's
\* items, node definitions and both edge maps exactly as they are.  A union
\* that the interpreter cut short for its recursion depth is left out: where
\* it is cut depends on the depth it was called at.
C8_MergeIdempotent ==
    (gout.op = "union" /\ gout.err # "RuntimeError: maximum recursion depth exceeded")
    => _store(graphs[gout.g], Self(gout.g, gout.prefix),
              GraphItem(gout.item.id, graphs[gout.item.id]), gout.name).B
          = graphs[gout.g]

\* a union under "nested" that brought the source's edge a -> b
C8_Witness ==
    /\ gout.op = "union" /\ gout.err = "" /\ gout.name = "nested"
    /\ gout.prefix = << >>
    /\ <<"nested", "a">> \in DOMAIN graphs[gout.g]._downstream
    /\ graphs[gout.g]._downstream[<<"nested", "a">>] = <<EdgeDef(<<"nested", "b">>, None)>>
    /\ graphs[gout.g]._upstream[<<"nested", "b">>] = <<EdgeDef(<<"nested", "a">>, None)>>

\* how often e occurs in the edge list l
Count(e, l) == Cardinality({i \in 1..Len(l) : l[i] = e})

\* the edge list an edge map holds under key k, none when it has no such key
EdgesAt(edges, k) == IF k \in DOMAIN edges THEN edges[k] ELSE << >>

\* l1 is the beginning of l2
IsPrefix(l1, l2) == Len(l1) <= Len(l2) /\ SubSeq(l2, 1, Len(l1)) = l1

\* the prefix the union `gout'` tells of rebased the source under
RebasePrefix == IF gout'.name = None THEN gout'.prefix ELSE Append(gout'.prefix, gout'.name)

\* for one edge map: every edge held before is retained in place; a source
\* edge whose rebased form was held gains no copy; any other is held after
Suppressed(source_edges, before, after, rp) ==
    \A s \in DOMAIN source_edges : \A i \in 1..Len(source_edges[s]) :
       LET k == rp \o s
           e == EdgeDef(rp \o source_edges[s][i].node, source_edges[s][i].param)
       IN /\ k \in DOMAIN after
          /\ IsPrefix(EdgesAt(before, k), after[k])
          /\ IF InList(e, EdgesAt(before, k))
             THEN Count(e, after[k]) = Count(e, EdgesAt(before, k))
             ELSE InList(e, after[k])

\* C9 -- duplicate-edge suppression: a union that returns adds no copy of a
\* source edge whose rebased form (same source path, target path and target
\* parameter) the destination already held, adds every source edge it did not
\* hold -- an edge between the same pair with another target parameter among
\* them -- and retains what was held.
C9_DuplicateEdgeSuppression ==
    [][(gout'.op = "union" /\ gout'.err = "")
         => /\ Suppressed(graphs[gout'.item.id]._downstream, graphs[gout'.g]._downstream,
                          graphs'[gout'.g]._downstream, RebasePrefix)
            /\ Suppressed(graphs[gout'.item.id]._upstream, graphs[gout'.g]._upstream,
                          graphs'[gout'.g]._upstream, RebasePrefix)]_vars

\* a flat union of a -> b into a graph that held a -> b.fudge: both edges
C9_Witness ==
    /\ gout.op = "union" /\ gout.err = "" /\ gout.name = None /\ gout.prefix = << >>
    /\ <<"a">> \in DOMAIN graphs[gout.g]._downstream
    /\ graphs[gout.g]._downstream[<<"a">>]
          = <<EdgeDef(<<"b">>, "fudge"), EdgeDef(<<"b">>, None)>>
    /\ graphs[gout.g]._upstream[<<"b">>]
          = <<EdgeDef(<<"a">>, "fudge"), EdgeDef(<<"a">>, None)>>

\* C10 -- path rebasing: after a union that returns, of source S into the
\* graph at prefix P under name n (or flat), every node at path p of S is held
\* at P + (n,) + p (P + p when flat) with S's callable, args and kwargs,
\* owned by the destination's root, and every edge of S is held with both
\* ends rebased, in the downstream and in the upstream map.
C10_PathRebasing ==
    [][(gout'.op = "union" /\ gout'.err = "")
         => LET S == graphs[gout'.item.id]
                D == graphs'[gout'.g]
                rp == RebasePrefix
            IN /\ \A p \in DOMAIN S._items :
                     S._items[p].kind = "NodeDef"
                        => /\ rp \o p \in DOMAIN D._items
                           /\ D._items[rp \o p] =
                                 NodeDef(gout'.g, S._items[p].func, rp \o S._items[p].prefix,
                                         S._items[p].name, Some(S._items[p].args),
                                         Some(S._items[p].kwargs))
               /\ \A s \in DOMAIN S._downstream : \A i \in 1..Len(S._downstream[s]) :
                     LET t == S._downstream[s][i] IN
                     /\ InList(EdgeDef(rp \o t.node, t.param), EdgesAt(D._downstream, rp \o s))
                     /\ InList(EdgeDef(rp \o s, t.param), EdgesAt(D._upstream, rp \o t.node))
               /\ \A t \in DOMAIN S._upstream : \A i \in 1..Len(S._upstream[t]) :
                     InList(EdgeDef(rp \o S._upstream[t][i].node, S._upstream[t][i].param),
                            EdgesAt(D._upstream, rp \o t))]_vars

\* a union under "nested" into the sub-graph "nested": the source's a -> b is
\* held two levels down
C10_Witness ==
    /\ gout.op = "union" /\ gout.err = "" /\ gout.name = "nested"
    /\ gout.prefix = <<"nested">>
    /\ <<"nested", "nested", "a">> \in DOMAIN graphs[gout.g]._items
    /\ graphs[gout.g]._items[<<"nested", "nested", "a">>].owner = gout.g
    /\ graphs[gout.g]._downstream[<<"nested", "nested", "a">>]
          = <<EdgeDef(<<"nested", "nested", "b">>, None)>>

\* the vertex _pipe makes of an item: the path its node is held at, and
\* the parameter aimed at
PipeVertex(g, prefix, item) ==
    LET it == IF item.t = "EdgeDef" THEN item.node ELSE item IN
    EdgeDef(IF it.t = "NodeDef"
            THEN (IF it.def.owner = g THEN it.def.path ELSE Append(prefix, it.def.name))
            ELSE StorePath(prefix, it, None),
            IF item.t = "EdgeDef" THEN item.param ELSE None)

RECURSIVE AddedDown(_, _, _)
\* the edges a pipe over the vertices v adds to the downstream list of p,
\* for the pairs (v[i-1], v[i]), from pair i on
AddedDown(v, p, i) ==
    IF i > Len(v) THEN << >>
    ELSE (IF v[i - 1].node = p THEN <<v[i]>> ELSE << >>) \o AddedDown(v, p, i + 1)

RECURSIVE AddedUp(_, _, _)
\* the mirror edges it adds to the upstream list of p
AddedUp(v, p, i) ==
    IF i > Len(v) THEN << >>
    ELSE (IF v[i].node = p THEN <<EdgeDef(v[i - 1].node, v[i].param)>> ELSE << >>)
            \o AddedUp(v, p, i + 1)

\* the pipe that the step made, over the vertices v, is additive
Additive(B, B2, v) ==
    LET paths == {v[i].node : i \in 1..Len(v)} IN
    /\ DOMAIN B2._items = DOMAIN B._items \cup paths
    /\ \A q \in DOMAIN B._items \ paths : B2._items[q] = B._items[q]
    /\ \A q \in paths : B2._items[q].kind = "NodeDef"
    /\ DOMAIN B2._downstream = DOMAIN B._downstream \cup paths
    /\ DOMAIN B2._upstream = DOMAIN B._upstream \cup paths
    /\ \A q \in DOMAIN B2._downstream :
          B2._downstream[q] = EdgesAt(B._downstream, q) \o AddedDown(v, q, 2)
    /\ \A q \in DOMAIN B2._upstream :
          B2._upstream[q] = EdgesAt(B._upstream, q) \o AddedUp(v, q, 2)

\* C23 -- pipelining is purely additive: a pipe over k >= 2 items that
\* returns appends, for each consecutive pair, exactly one edge to the
\* downstream list of the source and one mirror edge, carrying the target's
\* parameter, to the upstream list of the target; the items grow only by the
\* nodes not held before; every edge held before stays where it was in its
\* list, so an edge piped again is held twice.
C23_PipeAdditive ==
    [][(gout'.op = "pipe" /\ gout'.err = "")
         => /\ Len(gout'.nodes) >= 2
            /\ Additive(graphs[gout'.g], graphs'[gout'.g],
                        [i \in 1..Len(gout'.nodes) |->
                            PipeVertex(gout'.g, gout'.prefix, gout'.nodes[i])])]_vars

\* a pipe of two nodes of the graph that were piped before: the edge and
\* its mirror are held twice
C23_Witness ==
    /\ gout.op = "pipe" /\ gout.err = "" /\ Len(gout.nodes) = 2
    /\ gout.nodes[1].t = "NodeDef" /\ gout.nodes[2].t = "NodeDef"
    /\ Count(EdgeDef(gout.nodes[2].def.path, None),
             graphs[gout.g]._downstream[gout.nodes[1].def.path]) = 2
    /\ Count(EdgeDef(gout.nodes[1].def.path, None),
             graphs[gout.g]._upstream[gout.nodes[2].def.path]) = 2

\* a pipe over three items, one of them not held before
PipeInsertsAbsent ==
    /\ gout.op = "pipe" /\ gout.err = "" /\ Len(gout.nodes) = 3
    /\ gout.n = 1
    /\ <<"d">> \in DOMAIN graphs[gout.g]._items
    /\ graphs[gout.g]._downstream[<<"d">>] = <<EdgeDef(<<"a">>, None)>>


\* the paths of the node definitions of the item tree
NodePaths(B) == {q \in DOMAIN B._items : B._items[q].kind = "NodeDef"}

\* the two edge maps of B hold the same edges, between nodes of the item tree
Mirrored(B) ==
    /\ DOMAIN B._downstream \subseteq NodePaths(B)
    /\ DOMAIN B._upstream \subseteq NodePaths(B)
    /\ \A s \in DOMAIN B._downstream : \A i \in 1..Len(B._downstream[s]) :
          LET e == B._downstream[s][i] IN
          /\ e.node \in NodePaths(B)
          /\ Count(e, B._downstream[s])
                = Count(EdgeDef(s, e.param), EdgesAt(B._upstream, e.node))
    /\ \A t \in DOMAIN B._upstream : \A i \in 1..Len(B._upstream[t]) :
          LET e == B._upstream[t][i] IN
          /\ e.node \in NodePaths(B)
          /\ Count(e, B._upstream[t])
                = Count(EdgeDef(t, e.param), EdgesAt(B._downstream, e.node))

\* C27 -- edge-map mirror: after any sequence of store, override, pipe,
\* join, fan and union operations, failed ones included, the number of
\* entries (t, param) in downstream[s] equals the number of entries
\* (s, param) in upstream[t] for every s, t and param, and every key and
\* every edge endpoint of the two maps is the path of a node definition held
\* in the item tree.
C27_EdgeMapMirror == \A id \in GraphIds : Mirrored(graphs[id])

\* a join that returned, of two nodes into the parameter fudge of a third
\* that had an edge before: the target holds the three upstream edges
C27_Witness ==
    /\ gout.op = "join" /\ gout.err = "" /\ gout.n = MaxOps
    /\ gout.item.t = "EdgeDef"
    /\ LET t == gout.item.node.def.path IN
       /\ Len(graphs[gout.g]._upstream[t]) >= 3
       /\ Count(EdgeDef(gout.nodes[1].def.path, "fudge"), graphs[gout.g]._upstream[t]) >= 1
       /\ Count(EdgeDef(t, "fudge"),
                graphs[gout.g]._downstream[gout.nodes[1].def.path]) >= 1

\* a union that returned and brought edges, one of them held twice
UnionMirrored ==
    /\ gout.op = "union" /\ gout.err = ""
    /\ \E s \in DOMAIN graphs[gout.g]._downstream :
          /\ Len(s) >= 2
          /\ \E i \in 1..Len(graphs[gout.g]._downstream[s]) :
                Count(graphs[gout.g]._downstream[s][i], graphs[gout.g]._downstream[s]) = 2


\* the sub-graph paths under `prefix` that the union of the source Src makes
\* or merges into: the named one, and one per sub-graph of the source
MergedSubGraphs(prefix, name, Src) ==
    (IF name = None THEN {} ELSE {Append(prefix, name)})
       \cup {RebasePrefix \o q : q \in SubGraphs(Src)}

\* C28 -- union terminates: on every union step, whatever the destination
\* (a root or one of its sub-graphs) and whichever root is the source, the
\* destination's own root included, the merge completes or fails with an
\* error of its own, is not ended by the interpreter's recursion depth, and
\* makes no sub-graph other than the named one and one per sub-graph that
\* the source held when the call was made.
C28_UnionTerminates ==
    [][gout'.op = "union"
         => /\ gout'.err # "RuntimeError: maximum recursion depth exceeded"
            /\ SubGraphs(graphs'[gout'.g]) \ SubGraphs(graphs[gout'.g])
                  \subseteq MergedSubGraphs(gout'.prefix, gout'.name,
                                            graphs[gout'.item.id])]_vars

\* the part the code keeps: a union whose source is another root than the
\* destination's, and was not itself left by a merge that the recursion
\* depth cut, ends within the source's depth
UnionOfOtherRootTerminates ==
    [][(/\ gout'.op = "union" /\ gout'.item.id # gout'.g
        /\ \A q \in SubGraphs(graphs[gout'.item.id]) : Len(q) < RecursionLimit)
         => /\ gout'.err # "RuntimeError: maximum recursion depth exceeded"
            /\ SubGraphs(graphs'[gout'.g]) \ SubGraphs(graphs[gout'.g])
                  \subseteq MergedSubGraphs(gout'.prefix, gout'.name,
                                            graphs[gout'.item.id])]_vars


\* the construction operations on a blueprint
ConstructionOps == {"store", "pipe", "join", "fan", "union"}

\* C29 -- failed construction operations are atomic: a store, pipe, join,
\* fan or union step that ends with an error leaves the blueprint's items,
\* node definitions and both edge maps as they were before the call.
C29_FailedOpsAtomic ==
    [][(gout'.op \in ConstructionOps /\ gout'.err # "")
         => graphs'[gout'.g] = graphs[gout'.g]]_vars

\* the part the code keeps: a failed store of a node-worthy item, a pipe
\* refused for its arity and a union refused as a self-merge change nothing
FailedSingleStepsAtomic ==
    [][(\/ gout'.op = "store" /\ gout'.err # ""
        \/ gout'.err \in {"ValueError: at least two nodes",
                          "ValueError: Cannot add graph into itself"})
         => graphs' = graphs]_vars

\* and no failed operation takes anything away: every item stays an item of
\* its kind, every edge list keeps what it held, in order
FailedOpsOnlyAdd ==
    [][(gout'.op \in ConstructionOps /\ gout'.err # "")
         => LET B == graphs[gout'.g]
                B2 == graphs'[gout'.g]
            IN /\ \A q \in DOMAIN B._items :
                     q \in DOMAIN B2._items /\ B2._items[q].kind = B._items[q].kind
               /\ \A q \in DOMAIN B._downstream :
                     IsPrefix(B._downstream[q], EdgesAt(B2._downstream, q))
               /\ \A q \in DOMAIN B._upstream :
                     IsPrefix(B._upstream[q], EdgesAt(B2._upstream, q))]_vars


\* C29 without the merges that the recursion depth cut: violated as well, by
\* a join, fan or union that fails after its first items were stored
FailedOpsAtomicUnlessCut ==
    [][(/\ gout'.op \in ConstructionOps /\ gout'.err # ""
        /\ gout'.err # "RuntimeError: maximum recursion depth exceeded")
         => graphs'[gout'.g] = graphs[gout'.g]]_vars


====
